---- MODULE Spec2Model ----
(***************************************************************************)
(* grimd2pdf: the Markdown sanitizer, the structural validator and the     *)
(* conversion workflow of src/grimd2pdf/server.py.                         *)
(*                                                                         *)
(* A text is a sequence of one-character strings.  A warning or an error   *)
(* message is a tuple <<kind, number, ...>> holding the message's template *)
(* and the numbers formatted into it.                                      *)
(***************************************************************************)
EXTENDS Integers, Sequences, FiniteSets, TLC

(***************************************************************************)
(* Bounds of the model.                                                    *)
(***************************************************************************)
MaxLines == 3
MaxLen == 4

(***************************************************************************)
(* Character classes.                                                      *)
(***************************************************************************)
NL == "\n"
PIPE == "|"
HASH == "#"
\* The backquote character (U+0060), named because a TLA+ string cannot hold it.
TICK == "BQ"

\* Characters removed by the control-character pattern; "\f" is U+000C.
ControlChars == {"\f"}

\* Whitespace of str.strip() and of the pattern class \s.
WS == {" ", "\t", "\n", "\r", "\f"}

Digits == {"0", "1", "2", "3", "4", "5", "6", "7", "8", "9"}

Letters == {"a", "b", "c", "p", "y"}

\* The pattern class \w.
WordChars == Letters \cup Digits \cup {"_"}

(***************************************************************************)
(* String primitives of the Python runtime, on sequences of characters.    *)
(***************************************************************************)
\* s[i:] with i counted from 1.
From(s, i) == SubSeq(s, i, Len(s))

RECURSIVE Concat(_)
\* The concatenation of the sequences of seqs.
Concat(seqs) ==
  IF seqs = <<>> THEN <<>> ELSE Head(seqs) \o Concat(Tail(seqs))

RECURSIVE JoinWith(_, _)
\* sep.join(parts)
JoinWith(parts, sep) ==
  IF parts = <<>> THEN <<>>
  ELSE IF Len(parts) = 1 THEN parts[1]
  ELSE parts[1] \o sep \o JoinWith(Tail(parts), sep)

\* The smallest member of a non-empty finite set of integers.
MinOf(S) == CHOOSE x \in S : \A y \in S : x <= y

\* The first index >= i at which sep occurs in s, or 0.
FindFrom(s, sep, i) ==
  LET hits == {j \in i..(Len(s) - Len(sep) + 1) :
                 SubSeq(s, j, j + Len(sep) - 1) = sep}
  IN IF hits = {} THEN 0 ELSE MinOf(hits)

\* str.find, 1-based, 0 when absent.
Find(s, sep) == FindFrom(s, sep, 1)

\* sep in s
Contains(s, sep) == Find(s, sep) # 0

RECURSIVE Split(_, _)
\* s.split(sep): always at least one part.
Split(s, sep) ==
  LET k == Find(s, sep) IN
  IF k = 0 THEN <<s>>
  ELSE <<SubSeq(s, 1, k - 1)>> \o Split(From(s, k + Len(sep)), sep)

RECURSIVE CountSub(_, _)
\* s.count(sub): non-overlapping occurrences.
CountSub(s, sub) ==
  LET k == Find(s, sub) IN
  IF k = 0 THEN 0 ELSE 1 + CountSub(From(s, k + Len(sub)), sub)

RECURSIVE LStrip(_)
LStrip(s) ==
  IF s # <<>> /\ s[1] \in WS THEN LStrip(Tail(s)) ELSE s

RECURSIVE RStrip(_)
RStrip(s) ==
  IF s # <<>> /\ s[Len(s)] \in WS THEN RStrip(SubSeq(s, 1, Len(s) - 1)) ELSE s

\* s.strip()
Strip(s) == LStrip(RStrip(s))

StartsWith(s, c) == s # <<>> /\ s[1] = c

EndsWith(s, c) == s # <<>> /\ s[Len(s)] = c

\* s.replace(old, new, 1)
ReplaceFirst(s, old, new) ==
  LET k == Find(s, old) IN
  IF k = 0 THEN s
  ELSE SubSeq(s, 1, k - 1) \o new \o From(s, k + Len(old))

\* c * n
Repeat(c, n) == [i \in 1..n |-> c]

\* Whether position p of s is where the pattern anchor ^ matches under
\* re.MULTILINE.
AtLineStart(s, p) == p = 1 \/ (p > 1 /\ p - 1 <= Len(s) /\ s[p - 1] = NL)

\* The number of consecutive characters of s from position p that lie in cls.
RunLen(s, p, cls) ==
  LET stops == {j \in p..Len(s) : s[j] \notin cls}
  IN IF p > Len(s) THEN 0
     ELSE IF stops = {} THEN Len(s) - p + 1
     ELSE MinOf(stops) - p

\* The position of the first "\n" at or after p, or Len(s) + 1.
LineEnd(s, p) ==
  LET ends == {j \in p..Len(s) : s[j] = NL}
  IN IF p > Len(s) THEN p
     ELSE IF ends = {} THEN Len(s) + 1
     ELSE MinOf(ends)

\* The position after the line that holds position p of s: the position
\* after its "\n", or Len(s) + 1 for the last line.
NextLine(s, p) ==
  IF LineEnd(s, p) > Len(s) THEN Len(s) + 1 ELSE LineEnd(s, p) + 1

(***************************************************************************)
(* sanitize_markdown_content, stage by stage.                              *)
(***************************************************************************)

\* re.sub of the control-character class by the empty string.
StripControl(s) == SelectSeq(s, LAMBDA c : c \notin ControlChars)

\* The header separator synthesized for a row with pipe_count delimiters.
Separator(pipe_count) ==
  LET cells == IF pipe_count >= 2 THEN pipe_count ELSE 2
      sep == <<PIPE>> \o Concat([i \in 1..cells |-> <<"-", "-", "-", PIPE>>])
  IN IF EndsWith(sep, PIPE) THEN sep ELSE sep \o <<PIPE>>

\* fixed_lines[-1]: IndexError on an empty list, modelled by the flag ok.
LastLine(fixed) ==
  IF fixed = <<>> THEN [ok |-> FALSE, line |-> <<>>]
  ELSE [ok |-> TRUE, line |-> fixed[Len(fixed)]]

\* HeaderCheck without the guard on the line index and on fixed_lines.
HeaderCheckUnguarded(i, fixed, stripped_line) ==
  [raised |-> ~LastLine(fixed).ok,
   need |-> /\ ~StartsWith(Strip(LastLine(fixed).line), PIPE)
            /\ CountSub(stripped_line, <<PIPE>>) >= 1]

\* The test made when a line opens a table, i being its 0-based index:
\* whether a header separator goes before it (need), and whether reading
\* fixed_lines[-1] raised.
HeaderCheck(i, fixed, stripped_line) ==
  IF i > 0 /\ fixed # <<>>
  THEN [raised |-> ~LastLine(fixed).ok,
        need |-> /\ ~StartsWith(Strip(LastLine(fixed).line), PIPE)
                 /\ CountSub(stripped_line, <<PIPE>>) >= 1]
  ELSE [raised |-> FALSE, need |-> FALSE]

\* FixRow without the branch that closes a row opened by a delimiter.
FixRowNoTrailing(line, stripped_line) ==
  IF ~StartsWith(stripped_line, PIPE) /\ EndsWith(stripped_line, PIPE)
  THEN [line |-> <<PIPE>> \o line, fixed |-> TRUE]
  ELSE IF ~StartsWith(stripped_line, PIPE) /\ ~EndsWith(stripped_line, PIPE)
  THEN [line |-> <<PIPE>> \o RStrip(line) \o <<PIPE>>, fixed |-> TRUE]
  ELSE [line |-> line, fixed |-> FALSE]

\* FixRow without the branch that opens a row closed by a delimiter.
FixRowNoLeading(line, stripped_line) ==
  IF StartsWith(stripped_line, PIPE) /\ ~EndsWith(stripped_line, PIPE)
  THEN [line |-> RStrip(line) \o <<PIPE>>, fixed |-> TRUE]
  ELSE IF ~StartsWith(stripped_line, PIPE) /\ ~EndsWith(stripped_line, PIPE)
  THEN [line |-> <<PIPE>> \o RStrip(line) \o <<PIPE>>, fixed |-> TRUE]
  ELSE [line |-> line, fixed |-> FALSE]

\* The repair of the edges of a row that holds a delimiter.
FixRow(line, stripped_line) ==
  IF StartsWith(stripped_line, PIPE) /\ ~EndsWith(stripped_line, PIPE)
  THEN [line |-> RStrip(line) \o <<PIPE>>, fixed |-> TRUE]
  ELSE IF ~StartsWith(stripped_line, PIPE) /\ EndsWith(stripped_line, PIPE)
  THEN [line |-> <<PIPE>> \o line, fixed |-> TRUE]
  ELSE IF ~StartsWith(stripped_line, PIPE) /\ ~EndsWith(stripped_line, PIPE)
  THEN [line |-> <<PIPE>> \o RStrip(line) \o <<PIPE>>, fixed |-> TRUE]
  ELSE [line |-> line, fixed |-> FALSE]

\* [cell.strip() for cell in parts if cell.strip()]
RECURSIVE Cells(_)
Cells(parts) ==
  IF parts = <<>> THEN <<>>
  ELSE IF Strip(Head(parts)) # <<>>
  THEN <<Strip(Head(parts))>> \o Cells(Tail(parts))
  ELSE Cells(Tail(parts))

\* The cells of a line without delimiter: the first separator present among
\* tab, double space and single space splits it; <<>> stands for None.
PotentialCells(stripped_line) ==
  IF Contains(stripped_line, <<"\t">>)
  THEN Cells(Split(stripped_line, <<"\t">>))
  ELSE IF Contains(stripped_line, <<" ", " ">>)
  THEN Cells(Split(stripped_line, <<" ", " ">>))
  ELSE IF Contains(stripped_line, <<" ">>)
  THEN Cells(Split(stripped_line, <<" ">>))
  ELSE <<>>

\* '| ' + ' | '.join(cells) + ' |'
RowOf(cells) ==
  <<PIPE, " ">> \o JoinWith(cells, <<" ", PIPE, " ">>) \o <<" ", PIPE>>

\* The state of the table loop before its first iteration.
TableInit ==
  [fixed_lines |-> <<>>, in_table |-> FALSE, table_columns |-> 0,
   warnings |-> <<>>, raised |-> FALSE]

\* TableStep leaving the table open at a line that yields no cells.
TableStepStaysOpen(st, i, line) ==
  LET stripped_line == Strip(line)
      pipes == CountSub(stripped_line, <<PIPE>>)
  IN
  IF st.raised THEN st
  ELSE IF Contains(stripped_line, <<PIPE>>) /\ stripped_line # <<>> THEN
    LET opening == ~st.in_table
        chk == IF opening THEN HeaderCheck(i, st.fixed_lines, stripped_line)
               ELSE [raised |-> FALSE, need |-> FALSE]
        sep == chk.need
        row == FixRow(line, stripped_line)
        w1 == IF sep THEN <<<<"separator", i + 1>>>> ELSE <<>>
        w2 == IF row.fixed THEN <<<<"row", i + 1>>>> ELSE <<>>
    IN IF chk.raised THEN [st EXCEPT !.raised = TRUE] ELSE
       [fixed_lines |-> st.fixed_lines
                        \o (IF sep THEN <<Separator(pipes)>> ELSE <<>>)
                        \o <<row.line>>,
        in_table |-> TRUE,
        table_columns |-> IF opening THEN pipes + 1 ELSE st.table_columns,
        warnings |-> st.warnings \o w1 \o w2,
        raised |-> FALSE]
  ELSE IF st.in_table /\ stripped_line # <<>>
          /\ ~Contains(stripped_line, <<PIPE>>) THEN
    LET potential_cells == PotentialCells(stripped_line) IN
    IF Len(potential_cells) >= 2
    THEN [st EXCEPT !.fixed_lines = @ \o <<RowOf(potential_cells)>>,
                    !.warnings = @ \o <<<<"plain", i + 1>>>>]
    ELSE [st EXCEPT !.fixed_lines = @ \o <<line>>]
  ELSE [st EXCEPT !.fixed_lines = @ \o <<line>>, !.in_table = FALSE]

\* TableStep leaving the table open at a blank line.
TableStepBlankOpen(st, i, line) ==
  LET stripped_line == Strip(line)
      pipes == CountSub(stripped_line, <<PIPE>>)
  IN
  IF st.raised THEN st
  ELSE IF Contains(stripped_line, <<PIPE>>) /\ stripped_line # <<>> THEN
    LET opening == ~st.in_table
        chk == IF opening THEN HeaderCheck(i, st.fixed_lines, stripped_line)
               ELSE [raised |-> FALSE, need |-> FALSE]
        sep == chk.need
        row == FixRow(line, stripped_line)
        w1 == IF sep THEN <<<<"separator", i + 1>>>> ELSE <<>>
        w2 == IF row.fixed THEN <<<<"row", i + 1>>>> ELSE <<>>
    IN IF chk.raised THEN [st EXCEPT !.raised = TRUE] ELSE
       [fixed_lines |-> st.fixed_lines
                        \o (IF sep THEN <<Separator(pipes)>> ELSE <<>>)
                        \o <<row.line>>,
        in_table |-> TRUE,
        table_columns |-> IF opening THEN pipes + 1 ELSE st.table_columns,
        warnings |-> st.warnings \o w1 \o w2,
        raised |-> FALSE]
  ELSE IF st.in_table /\ stripped_line # <<>>
          /\ ~Contains(stripped_line, <<PIPE>>) THEN
    LET potential_cells == PotentialCells(stripped_line) IN
    IF Len(potential_cells) >= 2
    THEN [st EXCEPT !.fixed_lines = @ \o <<RowOf(potential_cells)>>,
                    !.warnings = @ \o <<<<"plain", i + 1>>>>]
    ELSE [st EXCEPT !.fixed_lines = @ \o <<line>>, !.in_table = FALSE]
  ELSE IF stripped_line = <<>> THEN [st EXCEPT !.fixed_lines = @ \o <<line>>]
  ELSE [st EXCEPT !.fixed_lines = @ \o <<line>>, !.in_table = FALSE]

\* TableStep inserting a separator row without a warning.
TableStepQuietSeparator(st, i, line) ==
  LET stripped_line == Strip(line)
      pipes == CountSub(stripped_line, <<PIPE>>)
  IN
  IF st.raised THEN st
  ELSE IF Contains(stripped_line, <<PIPE>>) /\ stripped_line # <<>> THEN
    LET opening == ~st.in_table
        chk == IF opening THEN HeaderCheck(i, st.fixed_lines, stripped_line)
               ELSE [raised |-> FALSE, need |-> FALSE]
        sep == chk.need
        row == FixRow(line, stripped_line)
        w1 == <<>>
        w2 == IF row.fixed THEN <<<<"row", i + 1>>>> ELSE <<>>
    IN IF chk.raised THEN [st EXCEPT !.raised = TRUE] ELSE
       [fixed_lines |-> st.fixed_lines
                        \o (IF sep THEN <<Separator(pipes)>> ELSE <<>>)
                        \o <<row.line>>,
        in_table |-> TRUE,
        table_columns |-> IF opening THEN pipes + 1 ELSE st.table_columns,
        warnings |-> st.warnings \o w1 \o w2,
        raised |-> FALSE]
  ELSE IF st.in_table /\ stripped_line # <<>>
          /\ ~Contains(stripped_line, <<PIPE>>) THEN
    LET potential_cells == PotentialCells(stripped_line) IN
    IF Len(potential_cells) >= 2
    THEN [st EXCEPT !.fixed_lines = @ \o <<RowOf(potential_cells)>>,
                    !.warnings = @ \o <<<<"plain", i + 1>>>>]
    ELSE [st EXCEPT !.fixed_lines = @ \o <<line>>, !.in_table = FALSE]
  ELSE [st EXCEPT !.fixed_lines = @ \o <<line>>, !.in_table = FALSE]

\* One iteration of the table loop: line number i (0-based) of the text.
TableStep(st, i, line) ==
  LET stripped_line == Strip(line)
      pipes == CountSub(stripped_line, <<PIPE>>)
  IN
  IF st.raised THEN st
  ELSE IF Contains(stripped_line, <<PIPE>>) /\ stripped_line # <<>> THEN
    LET opening == ~st.in_table
        chk == IF opening THEN HeaderCheck(i, st.fixed_lines, stripped_line)
               ELSE [raised |-> FALSE, need |-> FALSE]
        sep == chk.need
        row == FixRow(line, stripped_line)
        w1 == IF sep THEN <<<<"separator", i + 1>>>> ELSE <<>>
        w2 == IF row.fixed THEN <<<<"row", i + 1>>>> ELSE <<>>
    IN IF chk.raised THEN [st EXCEPT !.raised = TRUE] ELSE
       [fixed_lines |-> st.fixed_lines
                        \o (IF sep THEN <<Separator(pipes)>> ELSE <<>>)
                        \o <<row.line>>,
        in_table |-> TRUE,
        table_columns |-> IF opening THEN pipes + 1 ELSE st.table_columns,
        warnings |-> st.warnings \o w1 \o w2,
        raised |-> FALSE]
  ELSE IF st.in_table /\ stripped_line # <<>>
          /\ ~Contains(stripped_line, <<PIPE>>) THEN
    LET potential_cells == PotentialCells(stripped_line) IN
    IF Len(potential_cells) >= 2
    THEN [st EXCEPT !.fixed_lines = @ \o <<RowOf(potential_cells)>>,
                    !.warnings = @ \o <<<<"plain", i + 1>>>>]
    ELSE [st EXCEPT !.fixed_lines = @ \o <<line>>, !.in_table = FALSE]
  ELSE [st EXCEPT !.fixed_lines = @ \o <<line>>, !.in_table = FALSE]

\* The table loop over lines[k..], from state st.
RECURSIVE TableLoop(_, _, _)
TableLoop(st, lines, k) ==
  IF k > Len(lines) THEN st
  ELSE TableLoop(TableStep(st, k - 1, lines[k]), lines, k + 1)

\* The table stage: the loop over the lines of the text.
TableRepair(s) == TableLoop(TableInit, Split(s, <<NL>>), 1)

\* The largest member of a non-empty finite set of integers.
MaxOf(S) == CHOOSE x \in S : \A y \in S : y <= x

\* A match of the heading pattern ^(#{1,6})\s+(.+)$ (re.MULTILINE) at
\* position p of s: the hash marks, the longest run of whitespace that still
\* leaves a character of the same line to the text group, then the rest of
\* that line.  stop is the position after the match.
HeadingMatch(s, p) ==
  LET h == RunLen(s, p, {HASH})
      w == RunLen(s, p + h, WS)
      K == {k \in 1..w : p + h + k <= Len(s) /\ s[p + h + k] # NL}
  IN
  IF ~AtLineStart(s, p) \/ h < 1 \/ h > 6 \/ K = {}
  THEN [ok |-> FALSE, level |-> 0, text |-> <<>>, whole |-> <<>>, stop |-> p]
  ELSE LET q == p + h + MaxOf(K)
           e == LineEnd(s, q)
       IN [ok |-> TRUE, level |-> h, text |-> SubSeq(s, q, e - 1),
           whole |-> SubSeq(s, p, e - 1), stop |-> e]

\* re.finditer of the heading pattern from position p: the matches, left to
\* right and non-overlapping.  The pattern is anchored by ^, so after a
\* position that does not match the search resumes at the next line.
RECURSIVE Headings(_, _)
Headings(s, p) ==
  IF p > Len(s) THEN <<>>
  ELSE LET m == HeadingMatch(s, p) IN
       IF m.ok THEN <<m>> \o Headings(s, m.stop)
       ELSE Headings(s, NextLine(s, p))

\* The heading levels of a text, in document order.
HeadingLevels(s) ==
  LET hs == Headings(s, 1) IN [i \in 1..Len(hs) |-> hs[i].level]

\* The loop over the headings hs[k..]: the fixes (old line, new line) and the
\* warnings of the level jumps, prev_level being the level before hs[k].
RECURSIVE HeadingLoop(_, _, _)
HeadingLoop(hs, k, prev_level) ==
  IF k > Len(hs) THEN [heading_fixes |-> <<>>, warnings |-> <<>>]
  ELSE
    LET current_level == hs[k].level IN
    IF prev_level > 0 /\ current_level > prev_level + 1
    THEN LET proper_level == prev_level + 1
             proper_heading == Repeat(HASH, proper_level) \o <<" ">> \o hs[k].text
             rest == HeadingLoop(hs, k + 1, proper_level)
         IN [heading_fixes |-> <<<<hs[k].whole, proper_heading>>>>
                                 \o rest.heading_fixes,
             warnings |-> <<<<"heading", prev_level, current_level>>>>
                            \o rest.warnings]
    ELSE HeadingLoop(hs, k + 1, current_level)

\* The heading fixes applied in order, each to the first occurrence of the
\* old heading in the text.
RECURSIVE ApplyFixes(_, _)
ApplyFixes(s, fixes) ==
  IF fixes = <<>> THEN s
  ELSE ApplyFixes(ReplaceFirst(s, fixes[1][1], fixes[1][2]), Tail(fixes))

\* The heading stage.
HeadingRepair(s) ==
  LET r == HeadingLoop(Headings(s, 1), 1, 0)
  IN [text |-> ApplyFixes(s, r.heading_fixes), warnings |-> r.warnings]

\* re.sub(r'^(\s*)-(\S)', r'\1- \2') and the same for the marker *
\* (re.MULTILINE), from position p: a space goes after a marker that a
\* non-space character follows.  Text that no match covers is copied up to
\* the next line, where ^ matches again.
RECURSIVE BulletFix(_, _, _)
BulletFix(s, p, marker) ==
  IF p > Len(s) THEN <<>>
  ELSE
    LET w == RunLen(s, p, WS)
        m == p + w
    IN
    IF /\ AtLineStart(s, p)
       /\ m + 1 <= Len(s)
       /\ s[m] = marker
       /\ s[m + 1] \notin WS
    THEN SubSeq(s, p, m - 1) \o <<marker, " ", s[m + 1]>>
         \o BulletFix(s, m + 2, marker)
    ELSE SubSeq(s, p, NextLine(s, p) - 1) \o BulletFix(s, NextLine(s, p), marker)

\* re.sub(r'^(\s*)\d+\.(\S)', r'\1\g<0> \2') (re.MULTILINE), from position
\* p: group 1, then the whole match, a space and group 2.
RECURSIVE NumberFix(_, _)
NumberFix(s, p) ==
  IF p > Len(s) THEN <<>>
  ELSE
    LET w == RunLen(s, p, WS)
        d == RunLen(s, p + w, Digits)
        m == p + w + d
    IN
    IF /\ AtLineStart(s, p)
       /\ d >= 1
       /\ m + 1 <= Len(s)
       /\ s[m] = "."
       /\ s[m + 1] \notin WS
    THEN SubSeq(s, p, p + w - 1) \o SubSeq(s, p, m + 1) \o <<" ", s[m + 1]>>
         \o NumberFix(s, m + 2)
    ELSE SubSeq(s, p, NextLine(s, p) - 1) \o NumberFix(s, NextLine(s, p))

\* The list-marker stage: the three substitutions in order.
ListRepair(s) == NumberFix(BulletFix(BulletFix(s, 1, "-"), 1, "*"), 1)

\* re.sub(r'^```(\w+)?\n\n', r'```\1\n') (re.MULTILINE), from position p.
RECURSIVE FenceFix(_, _)
FenceFix(s, p) ==
  IF p > Len(s) THEN <<>>
  ELSE
    LET r == RunLen(s, p + 3, WordChars)
        m == p + 3 + r
    IN
    IF /\ AtLineStart(s, p)
       /\ m + 1 <= Len(s)
       /\ SubSeq(s, p, p + 2) = <<TICK, TICK, TICK>>
       /\ s[m] = NL
       /\ s[m + 1] = NL
    THEN SubSeq(s, p, m) \o FenceFix(s, m + 2)
    ELSE SubSeq(s, p, NextLine(s, p) - 1) \o FenceFix(s, NextLine(s, p))

\* re.sub(r'\n{4,}', '\n\n\n'), from position p: a run of four newlines or
\* more becomes three, shorter runs and the text between runs are copied.
RECURSIVE CollapseBlank(_, _)
CollapseBlank(s, p) ==
  IF p > Len(s) THEN <<>>
  ELSE
    LET n == RunLen(s, p, {NL}) IN
    IF n >= 4 THEN <<NL, NL, NL>> \o CollapseBlank(s, p + n)
    ELSE IF n >= 1 THEN SubSeq(s, p, p + n - 1) \o CollapseBlank(s, p + n)
    ELSE SubSeq(s, p, LineEnd(s, p) - 1) \o CollapseBlank(s, LineEnd(s, p))

\* EnsureNewline with the test inverted: nothing is appended where needed.
EnsureNewlineInverted(s) == IF EndsWith(s, NL) THEN s \o <<NL>> ELSE s

\* The last stage: a newline is appended to a text that does not end in one.
EnsureNewline(s) == IF EndsWith(s, NL) THEN s ELSE s \o <<NL>>

\* sanitize_markdown_content: the cleaned text and the warnings; raised tells
\* that an exception left the function instead.
Sanitize(s) ==
  LET t == TableRepair(StripControl(s))
      h == HeadingRepair(JoinWith(t.fixed_lines, <<NL>>))
  IN
  IF t.raised THEN [text |-> <<>>, warnings |-> <<>>, raised |-> TRUE]
  ELSE [text |-> EnsureNewline(CollapseBlank(FenceFix(ListRepair(h.text), 1), 1)),
        warnings |-> t.warnings \o h.warnings,
        raised |-> FALSE]

(***************************************************************************)
(* validate_markdown_structure.                                            *)
(***************************************************************************)
\* The longest line the validator accepts.
LongLineLimit == 10000

\* The deepest heading level the validator accepts.
DeepestLevel == 6

\* RowErrors without the test that the delimiter is at an edge of the line.
RECURSIVE RowErrorsAnywhere(_, _)
RowErrorsAnywhere(lines, k) ==
  IF k > Len(lines) THEN <<>>
  ELSE
    LET stripped_line == Strip(lines[k])
        pipe_count == CountSub(stripped_line, <<PIPE>>)
    IN
    (IF /\ Contains(stripped_line, <<PIPE>>)
        /\ stripped_line # <<>>
        /\ pipe_count >= 1
        /\ pipe_count < 2
     THEN <<<<"row", k>>>> ELSE <<>>)
    \o RowErrorsAnywhere(lines, k + 1)

\* The malformed-row errors of lines[k..], lines being numbered from 1.
RECURSIVE RowErrors(_, _)
RowErrors(lines, k) ==
  IF k > Len(lines) THEN <<>>
  ELSE
    LET stripped_line == Strip(lines[k])
        pipe_count == CountSub(stripped_line, <<PIPE>>)
    IN
    (IF /\ Contains(stripped_line, <<PIPE>>)
        /\ stripped_line # <<>>
        /\ pipe_count >= 1
        /\ pipe_count < 2
        /\ (StartsWith(stripped_line, PIPE) \/ EndsWith(stripped_line, PIPE))
     THEN <<<<"row", k>>>> ELSE <<>>)
    \o RowErrors(lines, k + 1)

\* max(len(h[0]) for h in headings): ValueError on no heading, modelled by
\* the flag ok.
MaxLevel(levels) ==
  IF levels = <<>> THEN [ok |-> FALSE, level |-> 0]
  ELSE [ok |-> TRUE, level |-> MaxOf({levels[i] : i \in 1..Len(levels)})]

\* The heading-depth check: its errors, and whether max() raised.
DepthCheck(levels) ==
  IF levels = <<>> THEN [raised |-> FALSE, errors |-> <<>>]
  ELSE [raised |-> ~MaxLevel(levels).ok,
        errors |-> IF MaxLevel(levels).level > DeepestLevel
                   THEN <<<<"deep", MaxLevel(levels).level>>>> ELSE <<>>]

\* FenceErrors counting every position at which a marker starts, markers
\* that overlap included.
FenceErrorsOverlapping(s) ==
  IF Cardinality({p \in 1..(Len(s) - 2) :
                    SubSeq(s, p, p + 2) = <<TICK, TICK, TICK>>}) % 2 # 0
  THEN <<<<"fence">>>> ELSE <<>>

\* The unclosed-code-block check.
FenceErrors(s) ==
  IF CountSub(s, <<TICK, TICK, TICK>>) % 2 # 0 THEN <<<<"fence">>>> ELSE <<>>

\* LongErrors rejecting a line of exactly LongLineLimit characters too.
RECURSIVE LongErrorsInclusive(_, _)
LongErrorsInclusive(lines, k) ==
  IF k > Len(lines) THEN <<>>
  ELSE (IF Len(lines[k]) >= LongLineLimit
        THEN <<<<"long", k, Len(lines[k])>>>> ELSE <<>>)
       \o LongErrorsInclusive(lines, k + 1)

\* The long-line errors of lines[k..].
RECURSIVE LongErrors(_, _)
LongErrors(lines, k) ==
  IF k > Len(lines) THEN <<>>
  ELSE (IF Len(lines[k]) > LongLineLimit
        THEN <<<<"long", k, Len(lines[k])>>>> ELSE <<>>)
       \o LongErrors(lines, k + 1)

\* Validate without the early return on empty content.
ValidateNoEmptyCheck(s) ==
  LET lines == Split(s, <<NL>>)
      errs == RowErrors(lines, 1) \o DepthCheck(HeadingLevels(s)).errors
              \o FenceErrors(s) \o LongErrors(lines, 1)
  IN [is_valid |-> Len(errs) = 0, errors |-> errs, raised |-> FALSE]

\* Validate returning at the first check that finds an error.
ValidateShortCircuit(s) ==
  IF Strip(s) = <<>>
  THEN [is_valid |-> FALSE, errors |-> <<<<"empty">>>>, raised |-> FALSE]
  ELSE
    LET lines == Split(s, <<NL>>)
        depth == DepthCheck(HeadingLevels(s))
        errs == IF RowErrors(lines, 1) # <<>> THEN RowErrors(lines, 1)
                ELSE IF depth.errors # <<>> THEN depth.errors
                ELSE IF FenceErrors(s) # <<>> THEN FenceErrors(s)
                ELSE LongErrors(lines, 1)
    IN IF depth.raised
       THEN [is_valid |-> FALSE, errors |-> <<>>, raised |-> TRUE]
       ELSE [is_valid |-> Len(errs) = 0, errors |-> errs, raised |-> FALSE]

\* validate_markdown_structure: the decision and the errors; raised tells
\* that an exception left the function instead.
Validate(s) ==
  IF Strip(s) = <<>>
  THEN [is_valid |-> FALSE, errors |-> <<<<"empty">>>>, raised |-> FALSE]
  ELSE
    LET lines == Split(s, <<NL>>)
        depth == DepthCheck(HeadingLevels(s))
        errs == RowErrors(lines, 1) \o depth.errors \o FenceErrors(s)
                \o LongErrors(lines, 1)
    IN IF depth.raised
       THEN [is_valid |-> FALSE, errors |-> <<>>, raised |-> TRUE]
       ELSE [is_valid |-> Len(errs) = 0, errors |-> errs, raised |-> FALSE]

(***************************************************************************)
(* The texts the functions are applied to: documents of up to MaxLines     *)
(* lines drawn from LineVocab, and every string of up to MaxLen characters *)
(* of Alphabet.                                                            *)
(***************************************************************************)
LineVocab ==
  { <<>>,
    <<" ", "\t">>,
    <<"a">>,
    <<"a", " ", "b">>,
    <<"#", " ", "a">>,
    <<"#", "#", "#", " ", "a">>,
    <<"|">>,
    <<"|", "a", "|">>,
    <<"a", "|", "b">>,
    <<TICK, TICK, TICK>>,
    <<"\f">> }

Alphabet == {"#", " ", NL, "|", "a", "1", "."}

Docs ==
  { JoinWith(ls, <<NL>>) :
      ls \in UNION { [1..n -> LineVocab] : n \in 1..MaxLines } }

RawStrings == UNION { [1..n -> Alphabet] : n \in 0..MaxLen }

Inputs == Docs \cup RawStrings

(***************************************************************************)
(* RowSpec: the functions applied to documents of up to MaxLines lines     *)
(* drawn from RowVocab: prose, rows with and without their edge            *)
(* delimiters, and lines of cells separated by tab, two spaces or a space. *)
(***************************************************************************)
RowVocab ==
  { <<>>,
    <<" ">>,
    <<"a">>,
    <<"a", " ", "b">>,
    <<"a", "\t", "b", " ", "c">>,
    <<"a", " ", " ", "b">>,
    <<PIPE, "a">>,
    <<"a", PIPE>>,
    <<"a", PIPE, "b">>,
    <<PIPE, "a", PIPE, "b", PIPE>>,
    <<" ", PIPE, "a", " ">> }

RowDocs ==
  { JoinWith(ls, <<NL>>) :
      ls \in UNION { [1..n -> RowVocab] : n \in 1..MaxLines } }

(***************************************************************************)
(* HeadSpec: the functions applied to documents of up to MaxLines lines    *)
(* drawn from HeadVocab: headings of four levels, prose, and lines that    *)
(* hold the text of a heading without being one.                           *)
(***************************************************************************)
HeadVocab ==
  { <<>>,
    <<"a">>,
    <<HASH, " ", "a">>,
    <<HASH, HASH, " ", "a">>,
    <<HASH, HASH, HASH, " ", "a">>,
    <<HASH, HASH, HASH, HASH, " ", "a">>,
    <<HASH, HASH, HASH, " ", " ", "b">>,
    <<"a", HASH, HASH, HASH, " ", "a">>,
    <<HASH, "a">> }

HeadDocs ==
  { JoinWith(ls, <<NL>>) :
      ls \in UNION { [1..n -> HeadVocab] : n \in 1..MaxLines } }

(***************************************************************************)
(* ListSpec: the functions applied to documents of up to MaxLines lines    *)
(* drawn from ListVocab: list items with and without the space after the   *)
(* marker, indented or not, and prose.                                     *)
(***************************************************************************)
ListVocab ==
  { <<"a">>,
    <<"-", "a">>,
    <<"*", "a">>,
    <<"1", ".", "a">>,
    <<" ", "-", "a">>,
    <<"-", " ", "a">>,
    <<"1", ".", " ", "a">>,
    <<"-", "-">> }

ListDocs ==
  { JoinWith(ls, <<NL>>) :
      ls \in UNION { [1..n -> ListVocab] : n \in 1..MaxLines } }

(***************************************************************************)
(* FenceSpec: the functions applied to documents of up to MaxLines + 1     *)
(* lines drawn from FenceVocab: fence lines with and without a language    *)
(* tag, blank lines, prose, and prose that ends in a run of three or of    *)
(* four backquotes.                                                        *)
(***************************************************************************)
FenceVocab ==
  { <<>>,
    <<"a">>,
    <<TICK, TICK, TICK>>,
    <<TICK, TICK, TICK, "p", "y">>,
    <<"a", TICK, TICK, TICK>>,
    <<"a", TICK, TICK, TICK, TICK>> }

FenceDocs ==
  { JoinWith(ls, <<NL>>) :
      ls \in UNION { [1..n -> FenceVocab] : n \in 1..(MaxLines + 1) } }

(***************************************************************************)
(* LongSpec: the functions applied to documents of one or two blocks drawn *)
(* from LongVocab: a line of exactly LongLineLimit characters, lines one   *)
(* character longer, plain or starting with a list marker, a lone          *)
(* delimiter, and a lone delimiter followed by an unclosed fence.          *)
(***************************************************************************)
LongVocab ==
  { Repeat("a", LongLineLimit),
    Repeat("a", LongLineLimit + 1),
    <<"-">> \o Repeat("a", LongLineLimit),
    <<PIPE>>,
    <<PIPE, NL, TICK, TICK, TICK>> }

LongDocs ==
  { JoinWith(ls, <<NL>>) : ls \in UNION { [1..n -> LongVocab] : n \in 1..2 } }

(***************************************************************************)
(* NormSpec: the functions applied to documents of up to MaxLines lines    *)
(* drawn from NormVocab: rows, a lone delimiter, prose of one and of two   *)
(* words, headings of level 1 and 3 and a line of hash marks.              *)
(***************************************************************************)
NormVocab ==
  { <<>>,
    <<"a">>,
    <<"a", " ", "b">>,
    <<HASH, " ", "a">>,
    <<HASH, HASH, HASH>>,
    <<HASH, HASH, HASH, " ", "a">>,
    <<PIPE>>,
    <<PIPE, "a", PIPE>>,
    <<"a", PIPE, "b">> }

NormDocs ==
  { JoinWith(ls, <<NL>>) :
      ls \in UNION { [1..n -> NormVocab] : n \in 1..MaxLines } }

(***************************************************************************)
(* Values of the conversion workflow: convert_markdown_to_pdf,             *)
(* convert_markdown_file_to_pdf and health_check.                          *)
(***************************************************************************)
\* The number of tool calls in flight at once.
NumCalls == 2

Calls == 1..NumCalls

\* Python values given as arguments: None, an integer, or a string.
PyNone == [kind |-> "none", n |-> 0, s |-> <<>>]

PyInt(n) == [kind |-> "int", n |-> n, s |-> <<>>]

PyStr(s) == [kind |-> "str", n |-> 0, s |-> s]

\* not v
Falsy(v) ==
  \/ v.kind = "none"
  \/ (v.kind = "int" /\ v.n = 0)
  \/ (v.kind = "str" /\ v.s = <<>>)

\* isinstance(v, str)
IsStr(v) == v.kind = "str"

\* s.endswith(suffix)
EndsWithSeq(s, suffix) ==
  Len(s) >= Len(suffix) /\ SubSeq(s, Len(s) - Len(suffix) + 1, Len(s)) = suffix

PdfExt == <<".", "p", "d", "f">>

\* The name given to the PDF when the caller gives none; one token stands for
\* the word converted_markdown.
DefaultName == <<"converted_markdown">>

\* OutputName appending the extension to every name.
OutputNameAlwaysAppend(output_filename) ==
  LET name == IF Falsy(output_filename) THEN DefaultName ELSE output_filename.s
  IN name \o PdfExt

\* The file name of the PDF: the default for no name, and the extension
\* appended to a name that lacks it.
OutputName(output_filename) ==
  LET name == IF Falsy(output_filename) THEN DefaultName ELSE output_filename.s
  IN IF EndsWithSeq(name, PdfExt) THEN name ELSE name \o PdfExt

\* The style block put before the text for a custom page size or margin; one
\* token stands for the block.
CssStyle == <<"<style>">>

\* The text given to the renderer as the section.
SectionContent(sanitized_content, custom_page) ==
  IF custom_page THEN CssStyle \o <<NL, NL>> \o sanitized_content
  ELSE sanitized_content

\* The bytes the renderer saves for a section: the external renderer is a
\* function of the section, taken to be injective.
PdfBytes(section) == <<"%PDF">> \o section

\* base64.b64encode(pdf_bytes).decode('utf-8')
Base64(pdf_bytes) == <<"base64">> \o pdf_bytes

\* An exception: its type, and which of the words the handlers look for its
\* lower-cased message holds.
Error(type, words) == [type |-> type, words |-> words]

NoError == Error("", {})

\* The messages an exception of the renderer may carry.
ErrorWords == {{}, {"hierarchy"}, {"table"}, {"row"}, {"hierarchy", "table"}}

\* A returned dictionary: keys are its keys; the other fields are the values
\* of the keys the model follows (error names the failed check or holds the
\* exception text).
NoResult ==
  [keys |-> {}, success |-> FALSE, error |-> <<>>, exception |-> NoError,
   filename |-> <<>>, size_bytes |-> 0, pdf_base64 |-> <<>>,
   validation_errors |-> <<>>, sanitization_warnings |-> <<>>,
   fallback_to_base64 |-> FALSE, status |-> ""]

\* A failure of an input check or of a file check.
InputFailure(what) ==
  [NoResult EXCEPT !.keys = {"success", "error", "message"},
                   !.error = <<what>>]

\* The failure returned when validation rejects the sanitized text.
ValidationFailure(validation_errors, sanitization_warnings) ==
  [NoResult EXCEPT !.keys = {"success", "error", "message",
                             "validation_errors", "sanitization_warnings"},
                   !.error = <<"Invalid markdown structure">>,
                   !.validation_errors = validation_errors,
                   !.sanitization_warnings = sanitization_warnings]

\* The result of the inner handler for an exception raised while the PDF
\* object is built or the section added; handled is FALSE when the handler
\* raises the exception again.
RenderFailure(e, sanitization_warnings) ==
  IF "hierarchy" \in e.words
  THEN [handled |-> TRUE,
        result |-> [NoResult EXCEPT
          !.keys = {"success", "error", "message", "suggested_fix",
                    "sanitization_warnings"},
          !.error = <<"Markdown hierarchy error">>,
          !.exception = e,
          !.sanitization_warnings = sanitization_warnings]]
  ELSE IF "table" \in e.words \/ "row" \in e.words
  THEN [handled |-> TRUE,
        result |-> [NoResult EXCEPT
          !.keys = {"success", "error", "message", "suggested_fix",
                    "sanitization_warnings"},
          !.error = <<"Markdown table error">>,
          !.exception = e,
          !.sanitization_warnings = sanitization_warnings]]
  ELSE [handled |-> FALSE, result |-> NoResult]

\* The result of the outer handler of convert_markdown_to_pdf.
ConvertFailure(e) ==
  IF "hierarchy" \in e.words
  THEN [NoResult EXCEPT
          !.keys = {"success", "error", "error_type", "message",
                    "suggested_fixes", "common_causes"},
          !.error = <<"exception">>,
          !.exception = e]
  ELSE [NoResult EXCEPT
          !.keys = {"success", "error", "error_type", "message"},
          !.error = <<"exception">>,
          !.exception = e]

\* The keys of a successful result, sanitization_warnings being present only
\* for a non-empty list of warnings.
SuccessKeys(base, sanitization_warnings) ==
  base \cup {"success", "filename", "size_bytes", "page_size", "margins",
             "message"}
       \cup (IF sanitization_warnings # <<>> THEN {"sanitization_warnings"}
             ELSE {})

\* The result of a conversion returned as base64.
Base64Success(filename, pdf_bytes, sanitization_warnings, fallback) ==
  [NoResult EXCEPT
     !.keys = SuccessKeys({"pdf_base64"} \cup
                          (IF fallback THEN {"fallback_to_base64"} ELSE {}),
                          sanitization_warnings),
     !.success = TRUE,
     !.filename = filename,
     !.size_bytes = Len(pdf_bytes),
     !.pdf_base64 = Base64(pdf_bytes),
     !.sanitization_warnings = sanitization_warnings,
     !.fallback_to_base64 = fallback]

\* The result of a conversion written to disk.
DiskSuccess(filename, file_size, sanitization_warnings) ==
  [NoResult EXCEPT
     !.keys = SuccessKeys({"output_path"}, sanitization_warnings),
     !.success = TRUE,
     !.filename = filename,
     !.size_bytes = file_size,
     !.sanitization_warnings = sanitization_warnings]

\* HealthResult without the error of the failed test conversion.
HealthResultNoError(result) ==
  IF result.success
  THEN [NoResult EXCEPT
          !.keys = {"success", "status", "message", "test_result"},
          !.success = TRUE,
          !.status = "healthy"]
  ELSE [NoResult EXCEPT
          !.keys = {"success", "status", "message"},
          !.status = "unhealthy"]

\* The dictionary health_check builds from the result of its test conversion.
HealthResult(result) ==
  IF result.success
  THEN [NoResult EXCEPT
          !.keys = {"success", "status", "message", "test_result"},
          !.success = TRUE,
          !.status = "healthy"]
  ELSE [NoResult EXCEPT
          !.keys = {"success", "status", "message", "error"},
          !.error = result.error,
          !.status = "unhealthy"]

\* A file that does not exist.
NoFile == [exists |-> FALSE, data |-> <<>>]

\* A file holding data.
FileOf(data) == [exists |-> TRUE, data |-> data]

\* A call of a tool before its first step.  markdown_file_path is read by
\* convert_markdown_file_to_pdf alone, for which markdown_content is the text
\* of the file.  output_filename is the local variable, which the code
\* rebinds; given_filename keeps the argument.
NewCall(entry, markdown_file_path, markdown_content, output_filename, return_base64, custom_page) ==
  [entry |-> entry,
   pc |-> "start",
   markdown_file_path |-> markdown_file_path,
   markdown_content |-> markdown_content,
   output_filename |-> output_filename,
   given_filename |-> output_filename,
   return_base64 |-> return_base64,
   custom_page |-> custom_page,
   sanitized_content |-> <<>>,
   sanitization_warnings |-> <<>>,
   is_valid |-> FALSE,
   validation_errors |-> <<>>,
   section |-> <<>>,
   filename |-> <<>>,
   result |-> NoResult,
   trace |-> <<>>]

\* A call slot that no tool call uses.
IdleCall ==
  [NewCall("convert", PyNone, PyNone, PyNone, FALSE, FALSE) EXCEPT !.pc = "idle"]

(***************************************************************************)
(* State.                                                                  *)
(*   content    the text given to the sanitizer or the validator           *)
(*   pc         start, sanitized, validated, validated_raw, raised; off    *)
(*              while the workflow is what runs                            *)
(*   sanitized  the text returned by the sanitizer                         *)
(*   warnings   the warnings returned by the sanitizer                     *)
(*   checked    the text given to the validator                            *)
(*   is_valid, errors   the pair returned by the validator                 *)
(*   calls      the tool calls in flight: arguments, position (returned     *)
(*              with a result, or escaped with an exception), locals,      *)
(*              the collaborators invoked so far (trace) and the result    *)
(*   disk       the files of the working directory, by name                *)
(*   temp       the temporary file of each call                            *)
(***************************************************************************)
VARIABLES content, pc, sanitized, warnings, checked, is_valid, errors,
          calls, disk, temp

vars == <<content, pc, sanitized, warnings, checked, is_valid, errors,
          calls, disk, temp>>

pure_vars == <<content, pc, sanitized, warnings, checked, is_valid, errors>>

flow_vars == <<calls, disk, temp>>

\* The file names a call may write to.
DiskNames ==
  { OutputName(f) : f \in {PyNone, PyStr(<<"o">>), PyStr(<<"o">> \o PdfExt),
                           PyStr(<<"doc">>), PyStr(<<"doc">> \o PdfExt)} }

Init ==
  /\ content \in Inputs
  /\ pc = "start"
  /\ sanitized = <<>>
  /\ warnings = <<>>
  /\ checked = <<>>
  /\ is_valid = FALSE
  /\ errors = <<>>
  /\ calls = [c \in Calls |-> IdleCall]
  /\ disk = [n \in DiskNames |-> NoFile]
  /\ temp = [c \in Calls |-> NoFile]

\* The caller runs sanitize_markdown_content on the text.
CallSanitize ==
  /\ pc = "start"
  /\ LET r == Sanitize(content) IN
       /\ pc' = IF r.raised THEN "raised" ELSE "sanitized"
       /\ sanitized' = r.text
       /\ warnings' = r.warnings
  /\ UNCHANGED <<content, checked, is_valid, errors>>
  /\ UNCHANGED flow_vars

\* The caller runs validate_markdown_structure, on the raw text or on the
\* sanitizer's output.
CallValidate ==
  /\ pc \in {"start", "sanitized"}
  /\ LET arg == IF pc = "start" THEN content ELSE sanitized
         r == Validate(arg)
     IN
       /\ pc' = IF r.raised THEN "raised"
                ELSE IF pc = "start" THEN "validated_raw" ELSE "validated"
       /\ checked' = arg
       /\ is_valid' = r.is_valid
       /\ errors' = r.errors
  /\ UNCHANGED <<content, sanitized, warnings>>
  /\ UNCHANGED flow_vars

Next == CallSanitize \/ CallValidate

Spec == Init /\ [][Next]_vars

RowInit ==
  /\ content \in RowDocs
  /\ pc = "start"
  /\ sanitized = <<>>
  /\ warnings = <<>>
  /\ checked = <<>>
  /\ is_valid = FALSE
  /\ errors = <<>>
  /\ calls = [c \in Calls |-> IdleCall]
  /\ disk = [n \in DiskNames |-> NoFile]
  /\ temp = [c \in Calls |-> NoFile]

RowSpec == RowInit /\ [][Next]_vars

HeadInit ==
  /\ content \in HeadDocs
  /\ pc = "start"
  /\ sanitized = <<>>
  /\ warnings = <<>>
  /\ checked = <<>>
  /\ is_valid = FALSE
  /\ errors = <<>>
  /\ calls = [c \in Calls |-> IdleCall]
  /\ disk = [n \in DiskNames |-> NoFile]
  /\ temp = [c \in Calls |-> NoFile]

HeadSpec == HeadInit /\ [][Next]_vars

ListInit ==
  /\ content \in ListDocs
  /\ pc = "start"
  /\ sanitized = <<>>
  /\ warnings = <<>>
  /\ checked = <<>>
  /\ is_valid = FALSE
  /\ errors = <<>>
  /\ calls = [c \in Calls |-> IdleCall]
  /\ disk = [n \in DiskNames |-> NoFile]
  /\ temp = [c \in Calls |-> NoFile]

ListSpec == ListInit /\ [][Next]_vars

FenceInit ==
  /\ content \in FenceDocs
  /\ pc = "start"
  /\ sanitized = <<>>
  /\ warnings = <<>>
  /\ checked = <<>>
  /\ is_valid = FALSE
  /\ errors = <<>>
  /\ calls = [c \in Calls |-> IdleCall]
  /\ disk = [n \in DiskNames |-> NoFile]
  /\ temp = [c \in Calls |-> NoFile]

FenceSpec == FenceInit /\ [][Next]_vars

LongInit ==
  /\ content \in LongDocs
  /\ pc = "start"
  /\ sanitized = <<>>
  /\ warnings = <<>>
  /\ checked = <<>>
  /\ is_valid = FALSE
  /\ errors = <<>>
  /\ calls = [c \in Calls |-> IdleCall]
  /\ disk = [n \in DiskNames |-> NoFile]
  /\ temp = [c \in Calls |-> NoFile]

LongSpec == LongInit /\ [][Next]_vars

NormInit ==
  /\ content \in NormDocs
  /\ pc = "start"
  /\ sanitized = <<>>
  /\ warnings = <<>>
  /\ checked = <<>>
  /\ is_valid = FALSE
  /\ errors = <<>>
  /\ calls = [c \in Calls |-> IdleCall]
  /\ disk = [n \in DiskNames |-> NoFile]
  /\ temp = [c \in Calls |-> NoFile]

NormSpec == NormInit /\ [][Next]_vars

(***************************************************************************)
(* The conversion workflow, one action per step of a call c.               *)
(***************************************************************************)
\* The call k returning result from convert_markdown_to_pdf: to the caller,
\* or to health_check, which wraps the result.
Return(k, result) ==
  [k EXCEPT !.result = result,
            !.pc = IF k.entry = "health" THEN "wrap" ELSE "returned"]

\* The call k with one more collaborator invoked.
Invoked(k, what) == [k EXCEPT !.trace = Append(@, what)]

\* The text of the test conversion of health_check, a heading and a
\* paragraph, with one-letter words.
HealthText == <<"#", " ", "a", NL, NL, "a", " ", "b", ".">>

\* health_check calls convert_markdown_to_pdf on its test text.
HealthStart(c) ==
  /\ calls[c].pc = "start"
  /\ calls[c].entry = "health"
  /\ calls' = [calls EXCEPT ![c] =
       [@ EXCEPT !.markdown_content = PyStr(HealthText),
                 !.output_filename = PyStr(<<"health_check_test">>),
                 !.return_base64 = TRUE,
                 !.pc = "convert"]]
  /\ UNCHANGED <<disk, temp, pure_vars>>

\* The call k left by the exception e, which no handler caught.
Escape(k, e) ==
  [k EXCEPT !.result = [NoResult EXCEPT !.exception = e], !.pc = "escaped"]

\* CheckInput without the check for whitespace-only content.
CheckInputNoBlank(c) ==
  /\ calls[c].pc = "convert"
  /\ LET k == calls[c]
         mc == k.markdown_content
         of == k.output_filename
     IN calls' = [calls EXCEPT ![c] =
          IF Falsy(mc) \/ ~IsStr(mc)
          THEN Return(k, InputFailure("Invalid markdown_content"))
          ELSE IF of.kind # "none" /\ ~IsStr(of)
          THEN Return(k, InputFailure("Invalid output_filename"))
          ELSE [k EXCEPT !.pc = "sanitize"]]
  /\ UNCHANGED <<disk, temp, pure_vars>>

\* The input validation of convert_markdown_to_pdf.  It runs before the try
\* block: markdown_content.strip() on a value that is no string would raise
\* AttributeError to the caller.
CheckInput(c) ==
  /\ calls[c].pc = "convert"
  /\ LET k == calls[c]
         mc == k.markdown_content
         of == k.output_filename
     IN calls' = [calls EXCEPT ![c] =
          IF Falsy(mc) \/ ~IsStr(mc)
          THEN Return(k, InputFailure("Invalid markdown_content"))
          ELSE IF ~IsStr(mc)
          THEN Escape(k, Error("AttributeError", {}))
          ELSE IF Strip(mc.s) = <<>>
          THEN Return(k, InputFailure("Empty markdown content provided"))
          ELSE IF of.kind # "none" /\ ~IsStr(of)
          THEN Return(k, InputFailure("Invalid output_filename"))
          ELSE [k EXCEPT !.pc = "sanitize"]]
  /\ UNCHANGED <<disk, temp, pure_vars>>

\* The call of sanitize_markdown_content.
SanitizeStep(c) ==
  /\ calls[c].pc = "sanitize"
  /\ LET k == Invoked(calls[c], "sanitize")
         r == Sanitize(k.markdown_content.s)
     IN calls' = [calls EXCEPT ![c] =
          IF r.raised
          THEN Return(k, ConvertFailure(Error("IndexError", {})))
          ELSE [k EXCEPT !.sanitized_content = r.text,
                         !.sanitization_warnings = r.warnings,
                         !.pc = "validate"]]
  /\ UNCHANGED <<disk, temp, pure_vars>>

\* ValidateStep going on to the renderer whatever the validator returned.
ValidateStepNoShortCircuit(c) ==
  /\ calls[c].pc = "validate"
  /\ LET k == Invoked(calls[c], "validate")
         r == Validate(k.sanitized_content)
     IN calls' = [calls EXCEPT ![c] =
          IF r.raised
          THEN Return(k, ConvertFailure(Error("ValueError", {})))
          ELSE [k EXCEPT !.is_valid = TRUE, !.pc = "render"]]
  /\ UNCHANGED <<disk, temp, pure_vars>>

\* The call of validate_markdown_structure and the return on invalid text.
ValidateStep(c) ==
  /\ calls[c].pc = "validate"
  /\ LET k == Invoked(calls[c], "validate")
         r == Validate(k.sanitized_content)
     IN calls' = [calls EXCEPT ![c] =
          IF r.raised
          THEN Return(k, ConvertFailure(Error("ValueError", {})))
          ELSE IF ~r.is_valid
          THEN Return([k EXCEPT !.validation_errors = r.errors],
                      ValidationFailure(r.errors, k.sanitization_warnings))
          ELSE [k EXCEPT !.is_valid = TRUE, !.pc = "render"]]
  /\ UNCHANGED <<disk, temp, pure_vars>>

\* The renderer builds the PDF object and takes the section; the file name
\* is then settled.
RenderOk(c) ==
  /\ calls[c].pc = "render"
  /\ LET k == Invoked(calls[c], "render") IN
     calls' = [calls EXCEPT ![c] =
       [k EXCEPT !.section = SectionContent(k.sanitized_content, k.custom_page),
                 !.filename = OutputName(k.output_filename),
                 !.pc = "deliver"]]
  /\ UNCHANGED <<disk, temp, pure_vars>>

\* The renderer raises while the PDF object is built or the section added.
RenderRaises(c) ==
  /\ calls[c].pc = "render"
  /\ \E words \in ErrorWords :
       LET k == Invoked(calls[c], "render")
           e == Error("Exception", words)
           f == RenderFailure(e, k.sanitization_warnings)
       IN calls' = [calls EXCEPT ![c] =
            Return(k, IF f.handled THEN f.result ELSE ConvertFailure(e))]
  /\ UNCHANGED <<disk, temp, pure_vars>>

\* Base64 output: the temporary file is created and the PDF saved to it.
TempSaveOk(c) ==
  /\ calls[c].pc = "deliver"
  /\ calls[c].return_base64
  /\ temp' = [temp EXCEPT ![c] = FileOf(PdfBytes(calls[c].section))]
  /\ calls' = [calls EXCEPT ![c] = [Invoked(@, "save") EXCEPT !.pc = "tmp_read"]]
  /\ UNCHANGED <<disk, pure_vars>>

\* Base64 output: the temporary file is created and saving to it raises.
TempSaveRaises(c) ==
  /\ calls[c].pc = "deliver"
  /\ calls[c].return_base64
  /\ temp' = [temp EXCEPT ![c] = FileOf(<<>>)]
  /\ \E words \in ErrorWords :
       calls' = [calls EXCEPT ![c] =
         Return(Invoked(@, "save"), ConvertFailure(Error("Exception", words)))]
  /\ UNCHANGED <<disk, pure_vars>>

\* Base64 output: the temporary file is read, encoded and unlinked, and the
\* result returned.
TempRead(c) ==
  /\ calls[c].pc = "tmp_read"
  /\ temp' = [temp EXCEPT ![c] = NoFile]
  /\ LET k == calls[c] IN
     calls' = [calls EXCEPT ![c] =
       Return(k, Base64Success(k.filename, temp[c].data,
                               k.sanitization_warnings, FALSE))]
  /\ UNCHANGED <<disk, pure_vars>>

\* Base64 output: reading the temporary file raises.
TempReadRaises(c) ==
  /\ calls[c].pc = "tmp_read"
  /\ calls' = [calls EXCEPT ![c] =
       Return(@, ConvertFailure(Error("OSError", {})))]
  /\ UNCHANGED <<disk, temp, pure_vars>>

\* File output: the PDF is saved under the file name.
DiskSaveOk(c) ==
  /\ calls[c].pc = "deliver"
  /\ ~calls[c].return_base64
  /\ disk' = [disk EXCEPT ![calls[c].filename] = FileOf(PdfBytes(calls[c].section))]
  /\ calls' = [calls EXCEPT ![c] = [Invoked(@, "save") EXCEPT !.pc = "disk_stat"]]
  /\ UNCHANGED <<temp, pure_vars>>

\* File output: saving raises PermissionError.
DiskSavePermission(c) ==
  /\ calls[c].pc = "deliver"
  /\ ~calls[c].return_base64
  /\ calls' = [calls EXCEPT ![c] = [Invoked(@, "save") EXCEPT !.pc = "fallback"]]
  /\ UNCHANGED <<disk, temp, pure_vars>>

\* File output: saving raises another exception.
DiskSaveRaises(c) ==
  /\ calls[c].pc = "deliver"
  /\ ~calls[c].return_base64
  /\ \E words \in ErrorWords :
       calls' = [calls EXCEPT ![c] =
         Return(Invoked(@, "save"), ConvertFailure(Error("Exception", words)))]
  /\ UNCHANGED <<disk, temp, pure_vars>>

\* File output: the size of the file under the file name is read and the
\* result returned.
DiskStat(c) ==
  /\ calls[c].pc = "disk_stat"
  /\ LET k == calls[c]
         f == disk[k.filename]
     IN calls' = [calls EXCEPT ![c] =
          IF f.exists
          THEN Return(k, DiskSuccess(k.filename, Len(f.data),
                                     k.sanitization_warnings))
          ELSE Return(k, ConvertFailure(Error("FileNotFoundError", {})))]
  /\ UNCHANGED <<disk, temp, pure_vars>>

\* The fallback after PermissionError: the PDF goes through a temporary file
\* and is returned as base64.
FallbackOk(c) ==
  /\ calls[c].pc = "fallback"
  /\ LET k == Invoked(calls[c], "save") IN
     calls' = [calls EXCEPT ![c] =
       Return(k, Base64Success(k.filename, PdfBytes(k.section),
                               k.sanitization_warnings, TRUE))]
  /\ UNCHANGED <<disk, temp, pure_vars>>

\* FallbackRaises trying the delivery again instead of returning the failure.
FallbackRaisesRetry(c) ==
  /\ calls[c].pc = "fallback"
  /\ temp' = [temp EXCEPT ![c] = FileOf(<<>>)]
  /\ calls' = [calls EXCEPT ![c] = [Invoked(@, "save") EXCEPT !.pc = "deliver"]]
  /\ UNCHANGED <<disk, pure_vars>>

\* The fallback raises after the temporary file is created.
FallbackRaises(c) ==
  /\ calls[c].pc = "fallback"
  /\ temp' = [temp EXCEPT ![c] = FileOf(<<>>)]
  /\ \E words \in ErrorWords :
       calls' = [calls EXCEPT ![c] =
         Return(Invoked(@, "save"), ConvertFailure(Error("Exception", words)))]
  /\ UNCHANGED <<disk, pure_vars>>

\* A path is its stem followed by its suffix, each one token.
PathStem(path) == SubSeq(path, 1, Len(path) - 1)

PathSuffix(path) == path[Len(path)]

\* The suffixes convert_markdown_file_to_pdf takes for Markdown.
MarkdownSuffixes == {".md", ".markdown", ".txt"}

\* The failure returned by the handler of convert_markdown_file_to_pdf.
FileFailure(e) ==
  [NoResult EXCEPT !.keys = {"success", "error", "error_type", "message"},
                   !.error = <<"exception">>,
                   !.exception = e]

\* The input validation of convert_markdown_file_to_pdf.
FileCheckPath(c) ==
  /\ calls[c].pc = "start"
  /\ calls[c].entry = "file"
  /\ LET k == calls[c]
         p == k.markdown_file_path
     IN calls' = [calls EXCEPT ![c] =
          IF Falsy(p) \/ ~IsStr(p)
          THEN [k EXCEPT !.result = InputFailure("Invalid markdown_file_path"),
                         !.pc = "returned"]
          ELSE [k EXCEPT !.pc = "file_exists"]]
  /\ UNCHANGED <<disk, temp, pure_vars>>

\* The path names no file, or something that is not a regular file.
FileMissing(c) ==
  /\ calls[c].pc = "file_exists"
  /\ \E what \in {"Markdown file not found", "Path is not a file"} :
       calls' = [calls EXCEPT ![c] =
         [@ EXCEPT !.result = InputFailure(what), !.pc = "returned"]]
  /\ UNCHANGED <<disk, temp, pure_vars>>

\* The path names a regular file: its suffix is checked.
FileFound(c) ==
  /\ calls[c].pc = "file_exists"
  /\ calls' = [calls EXCEPT ![c] =
       IF PathSuffix(@.markdown_file_path.s) \notin MarkdownSuffixes
       THEN [@ EXCEPT !.result = InputFailure("File does not appear to be markdown"),
                      !.pc = "returned"]
       ELSE [@ EXCEPT !.pc = "file_read"]]
  /\ UNCHANGED <<disk, temp, pure_vars>>

\* The file is read; an empty text is refused, the stem of the path names the
\* output when no name is given, and convert_markdown_to_pdf is called.
FileRead(c) ==
  /\ calls[c].pc = "file_read"
  /\ LET k == calls[c] IN
     calls' = [calls EXCEPT ![c] =
       IF Strip(k.markdown_content.s) = <<>>
       THEN [k EXCEPT !.result = InputFailure("Markdown file is empty"),
                      !.pc = "returned"]
       ELSE [k EXCEPT !.output_filename =
                        IF Falsy(@) THEN PyStr(PathStem(k.markdown_file_path.s))
                        ELSE @,
                      !.pc = "convert"]]
  /\ UNCHANGED <<disk, temp, pure_vars>>

\* The file decodes neither as UTF-8 nor as Latin-1.
FileUndecodable(c) ==
  /\ calls[c].pc = "file_read"
  /\ calls' = [calls EXCEPT ![c] =
       [@ EXCEPT !.result = InputFailure("Failed to decode file"),
                 !.pc = "returned"]]
  /\ UNCHANGED <<disk, temp, pure_vars>>

\* Reading the file raises another exception.
FileReadRaises(c) ==
  /\ calls[c].pc = "file_read"
  /\ calls' = [calls EXCEPT ![c] =
       [@ EXCEPT !.result = FileFailure(Error("OSError", {})),
                 !.pc = "returned"]]
  /\ UNCHANGED <<disk, temp, pure_vars>>

\* health_check builds its dictionary from the result of the conversion.
HealthWrap(c) ==
  /\ calls[c].pc = "wrap"
  /\ calls' = [calls EXCEPT ![c] =
       [@ EXCEPT !.result = HealthResult(@), !.pc = "returned"]]
  /\ UNCHANGED <<disk, temp, pure_vars>>

(***************************************************************************)
(* FlowSpec: one tool call, with every argument and every failure of the   *)
(* renderer and of the file system.                                        *)
(***************************************************************************)
\* The values given as markdown_content.
FlowContents ==
  { PyNone, PyInt(0), PyInt(5), PyStr(<<>>), PyStr(<<" ", NL>>),
    PyStr(<<"#", " ", "a">>), PyStr(<<"a", "|", "b">>), PyStr(<<"|">>),
    PyStr(<<"a", "|", "b", NL, "|">>),
    PyStr(<<TICK, TICK, TICK>>), PyStr(<<"\f">>) }

\* The values given as output_filename.
FlowNames ==
  { PyNone, PyInt(5), PyStr(<<>>), PyStr(<<"o">>), PyStr(<<"o">> \o PdfExt) }

\* The values given as markdown_file_path.
FlowPaths ==
  { PyNone, PyInt(5), PyStr(<<>>), PyStr(<<"doc", ".md">>),
    PyStr(<<"doc">> \o PdfExt \o <<".md">>), PyStr(<<"doc", ".exe">>) }

\* The texts a Markdown file may hold.
FileTexts ==
  { PyStr(<<>>), PyStr(<<" ", NL>>), PyStr(<<"#", " ", "a">>), PyStr(<<"|">>) }

ConvertCalls ==
  { [NewCall("convert", PyNone, mc, of, b64, cp) EXCEPT !.pc = "convert"] :
      mc \in FlowContents, of \in FlowNames, b64 \in BOOLEAN, cp \in BOOLEAN }

FileCalls ==
  { NewCall("file", p, mc, of, b64, FALSE) :
      p \in FlowPaths, mc \in FileTexts,
      of \in {PyNone, PyStr(<<>>), PyStr(<<"o">>)},
      b64 \in BOOLEAN }

HealthCall == NewCall("health", PyNone, PyNone, PyNone, FALSE, FALSE)

\* The sanitizer and the validator are not run on their own.
PureOff ==
  /\ content = <<>>
  /\ pc = "off"
  /\ sanitized = <<>>
  /\ warnings = <<>>
  /\ checked = <<>>
  /\ is_valid = FALSE
  /\ errors = <<>>

FlowInit ==
  /\ PureOff
  /\ \E k \in ConvertCalls \cup FileCalls \cup {HealthCall} :
       calls = [c \in Calls |-> IF c = 1 THEN k ELSE IdleCall]
  /\ disk = [n \in DiskNames |-> NoFile]
  /\ temp = [c \in Calls |-> NoFile]

FlowStep(c) ==
  \/ HealthStart(c)
  \/ FileCheckPath(c)
  \/ FileMissing(c)
  \/ FileFound(c)
  \/ FileRead(c)
  \/ FileUndecodable(c)
  \/ FileReadRaises(c)
  \/ CheckInput(c)
  \/ SanitizeStep(c)
  \/ ValidateStep(c)
  \/ RenderOk(c)
  \/ RenderRaises(c)
  \/ TempSaveOk(c)
  \/ TempSaveRaises(c)
  \/ TempRead(c)
  \/ TempReadRaises(c)
  \/ DiskSaveOk(c)
  \/ DiskSavePermission(c)
  \/ DiskSaveRaises(c)
  \/ DiskStat(c)
  \/ FallbackOk(c)
  \/ FallbackRaises(c)
  \/ HealthWrap(c)

FlowNext == \E c \in Calls : FlowStep(c)

FlowSpec == FlowInit /\ [][FlowNext]_vars

(***************************************************************************)
(* ConcSpec: NumCalls calls of convert_markdown_to_pdf on valid content,   *)
(* run by the threads of the worker pool, with a renderer and a file       *)
(* system that do not fail.                                                *)
(***************************************************************************)
ConcContents == { PyStr(<<"#", " ", "a">>), PyStr(<<"a", "|", "b">>) }

ConcCalls ==
  { [NewCall("convert", PyNone, mc, of, b64, FALSE) EXCEPT !.pc = "convert"] :
      mc \in ConcContents, of \in {PyNone, PyStr(<<"o">>)}, b64 \in BOOLEAN }

ConcInit ==
  /\ PureOff
  /\ calls \in [Calls -> ConcCalls]
  /\ disk = [n \in DiskNames |-> NoFile]
  /\ temp = [c \in Calls |-> NoFile]

ConcStep(c) ==
  \/ CheckInput(c)
  \/ SanitizeStep(c)
  \/ ValidateStep(c)
  \/ RenderOk(c)
  \/ TempSaveOk(c)
  \/ TempRead(c)
  \/ DiskSaveOk(c)
  \/ DiskStat(c)

ConcNext == \E c \in Calls : ConcStep(c)

ConcSpec == ConcInit /\ [][ConcNext]_vars

(***************************************************************************)
(* Properties of the sanitizer and of the validator, checked under Spec.   *)
(***************************************************************************)
\* Whether no heading level of levels exceeds the level before it by more
\* than one.
Monotone(levels) ==
  \A i \in 2..Len(levels) : levels[i] <= levels[i - 1] + 1

\* The number of newline characters that end s.
RECURSIVE TrailingNewlines(_)
TrailingNewlines(s) ==
  IF EndsWith(s, NL) THEN 1 + TrailingNewlines(SubSeq(s, 1, Len(s) - 1)) ELSE 0

\* Whether some line of s is longer than LongLineLimit.
HasLongLine(s) ==
  \E l \in {Split(s, <<NL>>)[i] : i \in 1..Len(Split(s, <<NL>>))} :
    Len(l) > LongLineLimit

\* Whether the trimmed content of some line of s is the lone delimiter.
HasLoneDelimiter(s) ==
  \E l \in {Split(s, <<NL>>)[i] : i \in 1..Len(Split(s, <<NL>>))} :
    Strip(l) = <<PIPE>>

\* Whether s holds an even number of fence markers.
BalancedFences(s) == CountSub(s, <<TICK, TICK, TICK>>) % 2 = 0

\* C1: sanitizing the cleaned text a second time returns the same text and
\* no warning.
C1_Idempotent ==
  pc = "sanitized" =>
    /\ Sanitize(sanitized).text = sanitized
    /\ Sanitize(sanitized).warnings = <<>>

\* C2: in the cleaned text no heading is more than one level deeper than the
\* heading before it.
C2_HeadingMonotone ==
  pc = "sanitized" => Monotone(HeadingLevels(sanitized))

\* C3 as claimed: for a non-empty input the cleaned text ends with exactly
\* one newline.
C3_ExactlyOneNewline ==
  (pc = "sanitized" /\ content # <<>>) => TrailingNewlines(sanitized) = 1

\* C3 as amended: for a non-empty input the cleaned text ends with a newline,
\* and with at most three of them.
C3_EndsWithNewline ==
  (pc = "sanitized" /\ content # <<>>) =>
    /\ EndsWith(sanitized, NL)
    /\ TrailingNewlines(sanitized) <= 3

\* C3 witness: the sanitizer has appended the newline to a text that lacked it.
C3_Witness ==
  /\ pc = "sanitized"
  /\ content # <<>>
  /\ ~EndsWith(content, NL)
  /\ sanitized = content \o <<NL>>

\* C4 as claimed: a non-empty input with balanced fences, no long line and no
\* lone-delimiter line is valid once sanitized.
C4_ValidAfterSanitize ==
  (/\ pc = "validated"
   /\ content # <<>>
   /\ BalancedFences(content)
   /\ ~HasLongLine(content)
   /\ ~HasLoneDelimiter(content)) => is_valid

\* C4 as amended: the premises are read on the input with its control
\* characters removed, which must hold a non-whitespace character, and the
\* length premise on the cleaned text.
C4_ValidAfterSanitizeAmended ==
  (/\ pc = "validated"
   /\ Strip(StripControl(content)) # <<>>
   /\ BalancedFences(StripControl(content))
   /\ ~HasLoneDelimiter(StripControl(content))
   /\ ~HasLongLine(sanitized)) => is_valid

\* C4 witness: a text the sanitizer had to repair has been validated.
C4_Witness ==
  /\ pc = "validated"
  /\ Strip(StripControl(content)) # <<>>
  /\ BalancedFences(StripControl(content))
  /\ ~HasLoneDelimiter(StripControl(content))
  /\ RowErrors(Split(content, <<NL>>), 1) # <<>>
  /\ warnings # <<>>
  /\ is_valid

\* C7: on an empty or whitespace-only text the validator returns invalid with
\* the single error Content is empty.
C7_EmptyRejected ==
  (pc \in {"validated", "validated_raw"} /\ Strip(checked) = <<>>) =>
    /\ is_valid = FALSE
    /\ errors = <<<<"empty">>>>

\* C7 witness: whitespace-only text of several lines has been validated.
C7_Witness ==
  /\ pc = "validated_raw"
  /\ Len(checked) >= 3
  /\ Contains(checked, <<NL>>)
  /\ Contains(checked, <<" ">>)
  /\ Strip(checked) = <<>>

\* C8: neither function ends in an exception; each returns its pair, and the
\* validator leaves the text it was given as it was.
C8_Total ==
  /\ pc # "raised"
  /\ pc = "sanitized" => EndsWith(sanitized, NL)
  /\ pc \in {"validated", "validated_raw"} =>
       /\ is_valid = (errors = <<>>)
       /\ checked = IF pc = "validated" THEN sanitized ELSE content

\* C8 witness: both functions have returned on a text whose first line opens
\* a table and that has no heading.
C8_Witness ==
  /\ pc = "validated"
  /\ StartsWith(content, PIPE)
  /\ HeadingLevels(checked) = <<>>

(***************************************************************************)
(* Properties of the table stage, checked under RowSpec.                   *)
(***************************************************************************)
\* The lines the table loop runs over.
TableLines(s) == Split(StripControl(s), <<NL>>)

\* The state of the table loop before and after line n (from 1) of s.
Before(s, n) == TableLoop(TableInit, SubSeq(TableLines(s), 1, n - 1), 1)

After(s, n) == TableLoop(TableInit, SubSeq(TableLines(s), 1, n), 1)

\* The lines and the warnings the loop adds at line n of s.
Appended(s, n) ==
  SubSeq(After(s, n).fixed_lines, Len(Before(s, n).fixed_lines) + 1,
         Len(After(s, n).fixed_lines))

Warned(s, n) ==
  SubSeq(After(s, n).warnings, Len(Before(s, n).warnings) + 1,
         Len(After(s, n).warnings))

\* Whether a line holds a delimiter, and whether it is blank.
HasPipe(line) == Contains(line, <<PIPE>>)

Blank(line) == Strip(line) = <<>>

\* A separator row of n cells.
SeparatorRow(n) ==
  <<PIPE>> \o Concat([i \in 1..n |-> <<"-", "-", "-", PIPE>>])

\* Whether some separator row is the line.
IsSeparatorRow(line) == \E n \in 1..(Len(line) + 1) : line = SeparatorRow(n)

\* The number of columns of a row closed at both edges.
Columns(row) == CountSub(Strip(row), <<PIPE>>) - 1

\* The number of entries of a sequence that satisfy kind.
CountKind(ws, kind) ==
  Cardinality({j \in 1..Len(ws) : ws[j][1] = kind})

\* Whether s is a prose line followed by a table whose header row no
\* separator row follows.
ScenarioA(s) ==
  LET L == TableLines(s) IN
  /\ Len(L) >= 2
  /\ ~Blank(L[1]) /\ ~HasPipe(L[1])
  /\ HasPipe(L[2])
  /\ \A n \in 3..Len(L) : HasPipe(L[n]) /\ ~IsSeparatorRow(Strip(L[n]))

\* C12: for a prose line followed by a table without separator row, the
\* cleaned text holds, right after the header row, one separator row of as
\* many cells as the header has columns; one warning tells of the insertion;
\* and the cleaned text is valid.
C12_SeparatorAfterHeader ==
  (pc = "validated" /\ ScenarioA(content)) =>
    LET out == Split(sanitized, <<NL>>) IN
    /\ Len(out) >= 3
    /\ out[1] = TableLines(content)[1]
    /\ Strip(out[2]) = Strip(FixRow(TableLines(content)[2],
                                    Strip(TableLines(content)[2])).line)
    /\ out[3] = SeparatorRow(Columns(out[2]))
    /\ CountKind(warnings, "separator") = 1
    /\ is_valid

\* C13: the table loop adds a separator row at a line exactly when the line
\* holds a delimiter, no table is open, and the line before it is not blank
\* and does not start with a delimiter; the separator row then goes right
\* before the line.
C13_SeparatorExactlyWhen ==
  pc = "sanitized" =>
    \A n \in 1..Len(TableLines(content)) :
      LET L == TableLines(content)
          opens == HasPipe(L[n]) /\ ~Before(content, n).in_table
          added == CountKind(Warned(content, n), "separator") = 1
      IN /\ added <=> (/\ opens
                       /\ n > 1
                       /\ ~Blank(L[n - 1])
                       /\ ~StartsWith(Strip(L[n - 1]), PIPE))
         /\ added => (/\ Len(Appended(content, n)) = 2
                      /\ IsSeparatorRow(Appended(content, n)[1]))
         /\ ~added => Len(Appended(content, n)) = 1

\* C14: at every line that holds a delimiter the table loop closes the row
\* that starts with a delimiter, opens the row that ends with one, does both
\* to the row that has neither, each with one warning citing the line, and
\* leaves a row with both edges as it is, with no such warning.
C14_RowEdges ==
  pc = "sanitized" =>
    \A n \in 1..Len(TableLines(content)) :
      LET line == TableLines(content)[n]
          t == Strip(line)
          opened == StartsWith(t, PIPE)
          closed == EndsWith(t, PIPE)
          row == Appended(content, n)[Len(Appended(content, n))]
          cited == {j \in 1..Len(Warned(content, n)) :
                      Warned(content, n)[j] = <<"row", n>>}
      IN HasPipe(line) =>
           /\ row = IF opened /\ closed THEN line
                    ELSE IF opened THEN RStrip(line) \o <<PIPE>>
                    ELSE IF closed THEN <<PIPE>> \o line
                    ELSE <<PIPE>> \o RStrip(line) \o <<PIPE>>
           /\ Cardinality(cited) = IF opened /\ closed THEN 0 ELSE 1
           /\ CountKind(Warned(content, n), "row") = Cardinality(cited)
           /\ (~opened \/ ~closed) => <<"row", n>> \in
                {warnings[j] : j \in 1..Len(warnings)}

\* C14 witness: the sanitizer has opened a row that ended with a delimiter,
\* after a row it had to close.
C14_Witness ==
  /\ pc = "sanitized"
  /\ Len(TableLines(content)) >= 2
  /\ TableLines(content)[1] = <<PIPE, "a">>
  /\ TableLines(content)[2] = <<"a", PIPE>>
  /\ Appended(content, 2) = << <<PIPE, "a", PIPE>> >>
  /\ warnings = << <<"row", 1>>, <<"row", 2>> >>

\* The trimmed non-empty parts of a line split on sep.
TrimmedParts(line, sep) ==
  SelectSeq([j \in 1..Len(Split(line, sep)) |-> Strip(Split(line, sep)[j])],
            LAMBDA cell : cell # <<>>)

\* The cells of a line without delimiter: tab before two spaces before space.
CellsOf(line) ==
  IF Contains(line, <<"\t">>) THEN TrimmedParts(line, <<"\t">>)
  ELSE IF Contains(line, <<" ", " ">>) THEN TrimmedParts(line, <<" ", " ">>)
  ELSE IF Contains(line, <<" ">>) THEN TrimmedParts(line, <<" ">>)
  ELSE <<>>

\* C15: inside a table a non-blank line without delimiter that splits into
\* two cells or more becomes the row of its cells, with one warning, and the
\* table stays open; one that does not is left as it is and closes the table;
\* outside a table such a line is left as it is.
C15_PlainRow ==
  pc = "sanitized" =>
    \A n \in 1..Len(TableLines(content)) :
      LET line == TableLines(content)[n]
          cells == CellsOf(Strip(line))
      IN (~Blank(line) /\ ~HasPipe(line)) =>
           IF Before(content, n).in_table /\ Len(cells) >= 2
           THEN /\ Appended(content, n) =
                     << <<PIPE, " ">> \o JoinWith(cells, <<" ", PIPE, " ">>)
                        \o <<" ", PIPE>> >>
                /\ Warned(content, n) = << <<"plain", n>> >>
                /\ After(content, n).in_table
           ELSE /\ Appended(content, n) = <<line>>
                /\ Warned(content, n) = <<>>
                /\ ~After(content, n).in_table

\* C15 witness: the sanitizer has rewritten a line of cells separated by a
\* tab inside a table, and left the same line outside a table as it was.
C15_Witness ==
  /\ pc = "sanitized"
  /\ TableLines(content) =
       << <<"a", "\t", "b", " ", "c">>, <<"a", PIPE, "b">>,
          <<"a", "\t", "b", " ", "c">> >>
  /\ Appended(content, 1) = << <<"a", "\t", "b", " ", "c">> >>
  /\ Appended(content, 3) =
       << <<PIPE, " ", "a", " ", PIPE, " ", "b", " ", "c", " ", PIPE>> >>
  /\ <<"plain", 3>> \in {warnings[j] : j \in 1..Len(warnings)}

\* C16: a blank line leaves the table closed and is kept as it is; the line
\* after it is not rewritten when it has no delimiter, and opens a table with
\* its own column count when it has one.
C16_BlankCloses ==
  pc = "sanitized" =>
    \A n \in 1..Len(TableLines(content)) :
      LET L == TableLines(content) IN
      Blank(L[n]) =>
        /\ ~After(content, n).in_table
        /\ Appended(content, n) = <<L[n]>>
        /\ Warned(content, n) = <<>>
        /\ (n < Len(L) /\ ~HasPipe(L[n + 1])) =>
             /\ Appended(content, n + 1) = <<L[n + 1]>>
             /\ Warned(content, n + 1) = <<>>
        /\ (n < Len(L) /\ HasPipe(L[n + 1])) =>
             /\ After(content, n + 1).in_table
             /\ After(content, n + 1).table_columns =
                  CountSub(Strip(L[n + 1]), <<PIPE>>) + 1

\* C16 witness: the sanitizer has met a blank line inside a table and has
\* left the line of two words after it as it was.
C16_Witness ==
  /\ pc = "sanitized"
  /\ TableLines(content) =
       << <<PIPE, "a", PIPE, "b", PIPE>>, <<" ">>, <<"a", " ", "b">> >>
  /\ Before(content, 2).in_table
  /\ sanitized = content \o <<NL>>

(***************************************************************************)
(* Properties of the heading stage, checked under HeadSpec.                *)
(***************************************************************************)
\* The text the heading stage is given: the output of the table stage.
HeadingInput(s) == JoinWith(TableRepair(StripControl(s)).fixed_lines, <<NL>>)

\* The levels of levels[k..] after repair, prev being the repaired level of
\* the heading before: a level deeper than prev + 1 becomes prev + 1.
RECURSIVE RepairedFrom(_, _, _)
RepairedFrom(levels, k, prev) ==
  IF k > Len(levels) THEN <<>>
  ELSE LET l == IF levels[k] > prev + 1 THEN prev + 1 ELSE levels[k]
       IN <<l>> \o RepairedFrom(levels, k + 1, l)

\* The repaired levels, the rule applying from previous level 0 on.
RepairedFromZero(levels) == RepairedFrom(levels, 1, 0)

\* The repaired levels, the rule applying to the headings after the first.
RepairedAfterFirst(levels) ==
  IF levels = <<>> THEN <<>>
  ELSE <<levels[1]>> \o RepairedFrom(levels, 2, levels[1])

\* The headings after the first that are level jumps, by their index.
Jumps(levels) ==
  {i \in 2..Len(levels) : levels[i] > RepairedAfterFirst(levels)[i - 1] + 1}

\* The warnings of the jumps of levels[k..], in document order.
RECURSIVE JumpWarnings(_, _)
JumpWarnings(levels, k) ==
  IF k > Len(levels) THEN <<>>
  ELSE (IF k \in Jumps(levels)
        THEN << <<"heading", RepairedAfterFirst(levels)[k - 1], levels[k]>> >>
        ELSE <<>>) \o JumpWarnings(levels, k + 1)

\* The number of the line that holds position p of s.
LineOf(s, p) == 1 + Cardinality({j \in 1..(p - 1) : s[j] = NL})

\* The number of the line at which heading h of s starts.
HeadingLine(s, h) == LineOf(s, h.stop - Len(h.whole))

\* C17: the rule applies from previous level 0: a first heading of level 2
\* or deeper is rewritten to level 1, with a warning.
C17_FirstHeadingRepaired ==
  (/\ pc = "sanitized"
   /\ Headings(HeadingInput(content), 1) # <<>>
   /\ Headings(HeadingInput(content), 1)[1].level >= 2) =>
    /\ HeadingLevels(sanitized) # <<>>
    /\ HeadingLevels(sanitized)[1] = 1
    /\ \E j \in 1..Len(warnings) : warnings[j][1] = "heading"

\* C18: every heading after the first that is more than one level deeper
\* than the repaired level P of the heading before it has level P + 1 in the
\* cleaned text, with its text kept and one warning naming P and its level;
\* every other heading is as it was, with no warning.
C18_JumpRewritten ==
  pc = "sanitized" =>
    LET in == Headings(HeadingInput(content), 1)
        out == Headings(sanitized, 1)
        levels == [i \in 1..Len(in) |-> in[i].level]
    IN /\ Len(out) = Len(in)
       /\ \A i \in 1..Len(in) :
            /\ out[i].level = RepairedAfterFirst(levels)[i]
            /\ out[i].text = in[i].text
            /\ i \notin Jumps(levels) => out[i].whole = in[i].whole
       /\ SelectSeq(warnings, LAMBDA w : w[1] = "heading")
            = JumpWarnings(levels, 1)

\* C19: the heading stage changes the lines of the headings at which a jump
\* was detected, one line for each jump, changes no other line, and keeps
\* the number of lines.
C19_OnlyJumpLinesChange ==
  pc = "sanitized" =>
    LET s == HeadingInput(content)
        in == Headings(s, 1)
        levels == [i \in 1..Len(in) |-> in[i].level]
        old == Split(s, <<NL>>)
        new == Split(HeadingRepair(s).text, <<NL>>)
    IN /\ Len(new) = Len(old)
       /\ {n \in 1..Len(old) : new[n] # old[n]}
            = {HeadingLine(s, in[i]) : i \in Jumps(levels)}

(***************************************************************************)
(* Properties of the list-marker stage, checked under ListSpec.            *)
(***************************************************************************)
\* The length of the indentation of a line.
Indent(line) == RunLen(line, 1, {" ", "\t"})

\* The length of the list marker after the indentation of a line: 1 for a
\* dash or a star, the digits and the dot for an ordered item, 0 for none.
MarkerLen(line) ==
  LET m == Indent(line) + 1
      d == RunLen(line, m, Digits)
  IN IF m <= Len(line) /\ line[m] \in {"-", "*"} THEN 1
     ELSE IF d >= 1 /\ m + d <= Len(line) /\ line[m + d] = "." THEN d + 1
     ELSE 0

\* Whether a non-space character directly follows the marker of a line.
MarkerUnspaced(line) ==
  LET e == Indent(line) + MarkerLen(line) IN
  MarkerLen(line) > 0 /\ e + 1 <= Len(line) /\ line[e + 1] \notin WS

\* Whether a space follows the marker of a line.
MarkerSpaced(line) ==
  LET e == Indent(line) + MarkerLen(line) IN
  MarkerLen(line) > 0 /\ e + 1 <= Len(line) /\ line[e + 1] = " "

\* The line with one space put after its marker.
Spaced(line) ==
  LET e == Indent(line) + MarkerLen(line) IN
  SubSeq(line, 1, e) \o <<" ">> \o From(line, e + 1)

\* C20: in the cleaned text every line whose marker was directly followed by
\* a non-space character has one space after the marker, its indentation
\* and the rest of the line being kept; a line whose marker a space followed
\* is as it was.
C20_MarkerSpacing ==
  pc = "sanitized" =>
    LET in == Split(content, <<NL>>)
        out == Split(sanitized, <<NL>>)
    IN /\ Len(out) = Len(in) + 1
       /\ \A n \in 1..Len(in) :
            /\ MarkerUnspaced(in[n]) => out[n] = Spaced(in[n])
            /\ MarkerSpaced(in[n]) => out[n] = in[n]

(***************************************************************************)
(* Properties of the code-fence stage, checked under FenceSpec.            *)
(***************************************************************************)
\* The text the code-fence stage is given: the output of the list stage.
FenceInput(s) == ListRepair(HeadingRepair(HeadingInput(s)).text)

\* Whether a line starts with the fence marker.
FenceLine(line) ==
  Len(line) >= 3 /\ SubSeq(line, 1, 3) = <<TICK, TICK, TICK>>

\* Whether line k of lines is an opening fence: a fence line with an even
\* number of fence lines before it.
OpeningFence(lines, k) ==
  /\ FenceLine(lines[k])
  /\ Cardinality({j \in 1..(k - 1) : FenceLine(lines[j])}) % 2 = 0

\* The blank lines that immediately follow an opening fence, by their number;
\* the last line of a text ends in no newline and is no blank line.
BlankAfterOpening(lines) ==
  {k \in 2..(Len(lines) - 1) : lines[k] = <<>> /\ OpeningFence(lines, k - 1)}

\* The lines of lines[k..] that are not numbered in gone.
RECURSIVE Without(_, _, _)
Without(lines, gone, k) ==
  IF k > Len(lines) THEN <<>>
  ELSE (IF k \in gone THEN <<>> ELSE <<lines[k]>>) \o Without(lines, gone, k + 1)

\* C21: the code-fence stage removes the blank lines that immediately follow
\* an opening fence and nothing else, a blank line after a closing fence
\* being kept, and the number of fence markers is unchanged.
C21_OnlyAfterOpening ==
  pc = "sanitized" =>
    LET in == FenceInput(content)
        out == FenceFix(in, 1)
        lines == Split(in, <<NL>>)
    IN /\ sanitized = EnsureNewline(CollapseBlank(out, 1))
       /\ Split(out, <<NL>>) = Without(lines, BlankAfterOpening(lines), 1)
       /\ CountSub(out, <<TICK, TICK, TICK>>)
            = CountSub(in, <<TICK, TICK, TICK>>)

(***************************************************************************)
(* Properties of the validator, checked under LongSpec and under Spec.     *)
(***************************************************************************)
\* Whether the validator has returned on a text that is not empty.
Validated == pc \in {"validated", "validated_raw"} /\ Strip(checked) # <<>>

\* The lines of the text the validator was given.
CheckedLines == Split(checked, <<NL>>)

\* Whether the trimmed line holds exactly one delimiter, at one of its edges.
Malformed(line) ==
  LET t == Strip(line) IN
  /\ Cardinality({j \in 1..Len(t) : t[j] = PIPE}) = 1
  /\ (t[1] = PIPE \/ t[Len(t)] = PIPE)

\* Whether a line is longer than the validator accepts.
TooLong(line) == Len(line) > LongLineLimit

\* The number of non-overlapping fence markers of s: a third of each maximal
\* run of backquotes, rounded down.
FenceMarkers(s) ==
  LET starts == {p \in 1..Len(s) : s[p] = TICK /\ (p = 1 \/ s[p - 1] # TICK)}
      third(p) == RunLen(s, p, {TICK}) \div 3
      RECURSIVE sum(_)
      sum(S) == IF S = {} THEN 0
                ELSE LET p == CHOOSE x \in S : TRUE IN third(p) + sum(S \ {p})
  IN sum(starts)

\* The errors the checks find in the text given to the validator.
RowFindings ==
  { <<"row", k>> : k \in {n \in 1..Len(CheckedLines) : Malformed(CheckedLines[n])} }

DepthFindings ==
  LET levels == HeadingLevels(checked)
      deepest == MaxOf({levels[i] : i \in 1..Len(levels)})
  IN IF levels # <<>> /\ deepest > DeepestLevel THEN { <<"deep", deepest>> }
     ELSE {}

FenceFindings == IF FenceMarkers(checked) % 2 = 1 THEN { <<"fence">> } ELSE {}

LongFindings ==
  { <<"long", k, Len(CheckedLines[k])>> :
      k \in {n \in 1..Len(CheckedLines) : TooLong(CheckedLines[n])} }

\* The place of an error's check in the order of the checks.
CheckRank(e) ==
  CASE e[1] = "row" -> 1
    [] e[1] = "deep" -> 2
    [] e[1] = "fence" -> 3
    [] OTHER -> 4

\* Whether error e goes before error f: its check runs earlier, or it is the
\* same check at an earlier line.
GoesBefore(e, f) ==
  \/ CheckRank(e) < CheckRank(f)
  \/ (CheckRank(e) = CheckRank(f) /\ Len(e) >= 2 /\ Len(f) >= 2 /\ e[2] < f[2])

\* C22: for a non-empty text the validator runs every check: its errors are
\* the malformed-row errors in line order, the heading-depth error, the
\* unclosed-code-block error and the long-line errors in line order, and the
\* text is valid exactly when there is none.
C22_EveryCheckInOrder ==
  Validated =>
    /\ {errors[i] : i \in 1..Len(errors)}
         = RowFindings \cup DepthFindings \cup FenceFindings \cup LongFindings
    /\ \A i, j \in 1..Len(errors) : i < j => GoesBefore(errors[i], errors[j])
    /\ is_valid = (errors = <<>>)

\* C22 witness: the validator has returned a malformed-row error, the
\* unclosed-code-block error and a long-line error on one text.
C22_Witness ==
  /\ Validated
  /\ Len(errors) = 3
  /\ errors[1][1] = "row"
  /\ errors[2][1] = "fence"
  /\ errors[3][1] = "long"

(***************************************************************************)
\* The number of delimiters of a trimmed line.
Delimiters(line) == CountSub(Strip(line), <<PIPE>>)

\* Whether the delimiter is the first or the last character of the trimmed
\* line.
AtEdge(line) == StartsWith(Strip(line), PIPE) \/ EndsWith(Strip(line), PIPE)

\* The number of row errors that cite line k.
RowErrorsAt(k) == Cardinality({i \in 1..Len(errors) : errors[i] = <<"row", k>>})

\* C23: the validator records one malformed-row error for a line exactly
\* when the trimmed line holds one delimiter, at an edge; a line whose one
\* delimiter is at no edge and a line with two delimiters or more are not
\* flagged, whatever the delimiter counts of the lines around them.
C23_MalformedRowExactly ==
  Validated =>
    \A k \in 1..Len(CheckedLines) :
      LET line == CheckedLines[k] IN
      /\ RowErrorsAt(k) = IF Delimiters(line) = 1 /\ AtEdge(line) THEN 1 ELSE 0
      /\ (Delimiters(line) = 1 /\ ~AtEdge(line)) => RowErrorsAt(k) = 0
      /\ Delimiters(line) >= 2 => RowErrorsAt(k) = 0

\* C23 witness: the validator has flagged a line of one delimiter in a text
\* whose other rows differ in their number of delimiters.
C23_Witness ==
  /\ Validated
  /\ \E k \in 1..Len(CheckedLines) : RowErrorsAt(k) = 1
  /\ \E j, k \in 1..Len(CheckedLines) :
       /\ Delimiters(CheckedLines[j]) >= 2
       /\ Delimiters(CheckedLines[k]) > Delimiters(CheckedLines[j])
  /\ Len(errors) = 1
\* The number of unclosed-code-block errors among the errors.
FenceErrorCount == Cardinality({i \in 1..Len(errors) : errors[i] = <<"fence">>})

\* C24: the validator records the unclosed-code-block error once when the
\* number of non-overlapping fence markers of the whole text is odd and not
\* at all when it is even, wherever in their lines the markers are.
C24_OddFencesExactly ==
  Validated =>
    FenceErrorCount = IF FenceMarkers(checked) % 2 = 1 THEN 1 ELSE 0

\* C24 witness: the error has been recorded for a text of three markers, one
\* of them inside a line, in a run of four backquotes.
C24_Witness ==
  /\ Validated
  /\ FenceMarkers(checked) = 3
  /\ \E k \in 1..Len(CheckedLines) :
       /\ ~FenceLine(CheckedLines[k])
       /\ RunLen(CheckedLines[k], 2, {TICK}) = 4
  /\ errors = << <<"fence">> >>
\* The long-line errors among the errors that cite line k.
LongErrorsAt(k) == {i \in 1..Len(errors) : errors[i][1] = "long" /\ errors[i][2] = k}

\* The validator's part of C25: one error for each line longer than
\* LongLineLimit, citing its number and its length, and none for another.
LongLinesFlagged ==
  Validated =>
    \A k \in 1..Len(CheckedLines) :
      IF TooLong(CheckedLines[k])
      THEN /\ Cardinality(LongErrorsAt(k)) = 1
           /\ \A i \in LongErrorsAt(k) :
                errors[i] = <<"long", k, Len(CheckedLines[k])>>
      ELSE LongErrorsAt(k) = {}

\* The lengths of the lines of s that are longer than LongLineLimit, in
\* document order.
LongLengths(s) ==
  LET lines == SelectSeq(Split(s, <<NL>>), TooLong)
  IN [i \in 1..Len(lines) |-> Len(lines[i])]

\* Whether no stage of the sanitizer has a reason to edit a line of s: the
\* line holds no control character, delimiter, space or tab and starts with
\* no dash, star or digit, and s holds no hash mark (a heading may run from
\* a line of hash marks into the lines after it).
Untouched(s, line) ==
  /\ \A j \in 1..Len(line) : line[j] \notin ControlChars \cup {PIPE, " ", "\t"}
  /\ line # <<>> => line[1] \notin {"-", "*"} \cup Digits
  /\ ~Contains(s, <<HASH>>)

\* The number of lines of s that are equal to line.
Copies(s, line) ==
  Cardinality({k \in 1..Len(Split(s, <<NL>>)) : Split(s, <<NL>>)[k] = line})

\* C25 as claimed: the validator flags the lines longer than LongLineLimit
\* and no other, and the sanitizer changes the length of no such line.
C25_LongLinesAsClaimed ==
  /\ LongLinesFlagged
  /\ pc = "sanitized" => LongLengths(sanitized) = LongLengths(content)

\* C25 as amended: the validator's part as claimed, and the sanitizer keeps
\* every such line that gives no stage a reason to edit it.
C25_LongLines ==
  /\ LongLinesFlagged
  /\ pc = "sanitized" =>
       \A k \in 1..Len(Split(content, <<NL>>)) :
         LET line == Split(content, <<NL>>)[k] IN
         (TooLong(line) /\ Untouched(content, line)) =>
           Copies(sanitized, line) >= Copies(content, line)

\* C25 witness: of a sanitized text with a line of LongLineLimit characters
\* and a line one character longer, the validator has flagged the second.
C25_Witness ==
  /\ pc = "validated"
  /\ Len(CheckedLines) = 3
  /\ Len(CheckedLines[1]) = LongLineLimit
  /\ Len(CheckedLines[2]) = LongLineLimit + 1
  /\ Untouched(content, CheckedLines[2])
  /\ checked = content \o <<NL>>
  /\ errors = << <<"long", 2, LongLineLimit + 1>> >>
(* Properties of the whole sanitizer, checked under NormSpec.              *)
(***************************************************************************)
\* Whether the trimmed line starts and ends with a delimiter.
Edged(line) == StartsWith(Strip(line), PIPE) /\ EndsWith(Strip(line), PIPE)

\* C28: every line of the cleaned text that holds a delimiter starts and
\* ends with one once trimmed, and the validator reports a malformed row of
\* the cleaned text only at a line whose trimmed content is the delimiter
\* alone.
C28_RowNormalForm ==
  /\ pc = "sanitized" =>
       \A k \in 1..Len(Split(sanitized, <<NL>>)) :
         HasPipe(Split(sanitized, <<NL>>)[k]) => Edged(Split(sanitized, <<NL>>)[k])
  /\ pc = "validated" =>
       \A i \in 1..Len(errors) :
         errors[i][1] = "row" => Strip(CheckedLines[errors[i][2]]) = <<PIPE>>

\* Whether sequence a is the beginning of sequence b.
IsPrefix(a, b) == Len(a) <= Len(b) /\ SubSeq(b, 1, Len(a)) = a

\* The table edits at line n (from 1) of s, read off the text: a separator
\* row put before the line, then a change of the line itself, an edge repair
\* when the line holds a delimiter and a conversion of plain text otherwise.
EditsAt(s, n) ==
  LET a == Appended(s, n)
      line == TableLines(s)[n]
  IN IF a = <<>> THEN <<>>
     ELSE (IF Len(a) = 2 THEN << <<"separator", n>> >> ELSE <<>>)
          \o (IF a[Len(a)] = line THEN <<>>
              ELSE IF HasPipe(line) THEN << <<"row", n>> >>
              ELSE << <<"plain", n>> >>)

\* The table edits of s by line.
TableEdits(s) == Concat([n \in 1..Len(TableLines(s)) |-> EditsAt(s, n)])

\* The number of heading fixes of text h whose replacement changes the text.
HeadingRewrites(h) ==
  LET fixes == HeadingLoop(Headings(h, 1), 1, 0).heading_fixes
  IN Cardinality({i \in 1..Len(fixes) :
       ApplyFixes(h, SubSeq(fixes, 1, i))
         # ApplyFixes(h, SubSeq(fixes, 1, i - 1))})

\* C29: the warnings are one entry for every table edit, by line and citing
\* the number (from 1) of the input line, then one entry for every heading
\* rewrite in document order; they are empty when the table stage and the
\* heading stage change nothing; and no stage or loop iteration removes or
\* reorders the entries before it.
C29_WarningsMirrorEdits ==
  pc = "sanitized" =>
    LET h == HeadingInput(content)
        levels == HeadingLevels(h)
        hw == SelectSeq(warnings, LAMBDA w : w[1] = "heading")
    IN /\ warnings = TableEdits(content) \o hw
       /\ hw = JumpWarnings(levels, 1)
       /\ Len(hw) = HeadingRewrites(h)
       /\ (h = StripControl(content) /\ HeadingRepair(h).text = h)
            => warnings = <<>>
       /\ \A n \in 1..Len(TableLines(content)) :
            IsPrefix(Before(content, n).warnings, After(content, n).warnings)
       /\ IsPrefix(TableRepair(StripControl(content)).warnings, warnings)

\* A cleaned text with a separator insertion and an edge repair at line 3
\* and a heading rewrite.
C29_Witness ==
  /\ pc = "sanitized"
  /\ warnings = << <<"separator", 3>>, <<"row", 3>>, <<"heading", 1, 3>> >>

(***************************************************************************)
(* Properties of one tool call, checked under FlowSpec.                    *)
(***************************************************************************)
\* The collaborators of convert_markdown_to_pdf in the order of the pipeline;
\* the fallback after PermissionError saves a second time.
Pipeline == <<"sanitize", "validate", "render", "save">>

\* Whether "what" has been invoked by the call k.
Has(k, what) == \E i \in 1..Len(k.trace) : k.trace[i] = what

\* Whether the call k has passed the input checks of convert_markdown_to_pdf.
PastChecks(k) ==
  k.pc \in {"sanitize", "validate", "render", "deliver", "tmp_read",
            "disk_stat", "fallback"}
    \/ (k.pc \in {"returned", "wrap"} /\ k.trace # <<>>)

\* Whether markdown_content is None, no string, empty or whitespace only.
BadContent(v) == v.kind # "str" \/ Strip(v.s) = <<>>

\* C5: the collaborators are invoked in the order sanitize, validate, render;
\* the validator is given the sanitizer's output; the renderer is invoked
\* only once that output was found valid, and on that output; when it is
\* found invalid the renderer is not invoked and the failure returned carries
\* the validator's errors and the sanitizer's warnings.
C5_PipelineOrder ==
  \A c \in Calls :
    LET k == calls[c]
        s == Sanitize(k.markdown_content.s)
        v == Validate(s.text)
    IN PastChecks(k) =>
         /\ \A i \in 1..Len(k.trace) :
              k.trace[i] = Pipeline[IF i < Len(Pipeline) THEN i ELSE Len(Pipeline)]
         /\ k.pc # "sanitize" => Has(k, "sanitize")
         /\ k.pc \notin {"sanitize", "validate"} => Has(k, "validate")
         /\ Has(k, "validate") =>
              /\ k.sanitized_content = s.text
              /\ k.sanitization_warnings = s.warnings
         /\ (k.pc = "render" \/ Has(k, "render")) =>
              /\ Has(k, "validate")
              /\ v.is_valid
              /\ k.is_valid
         /\ k.pc \in {"deliver", "tmp_read", "disk_stat", "fallback"} =>
              k.section = SectionContent(s.text, k.custom_page)
         /\ (Has(k, "validate") /\ ~v.is_valid) =>
              /\ ~Has(k, "render")
              /\ k.pc \in {"returned", "wrap"}
              /\ k.result.success = FALSE
              /\ {"validation_errors", "sanitization_warnings"}
                   \subseteq k.result.keys
              /\ k.result.validation_errors = v.errors
              /\ k.result.validation_errors # <<>>
              /\ k.result.sanitization_warnings = s.warnings

\* C5 witness: a call whose content passed the input checks has returned the
\* validation failure without the renderer, after the sanitizer warned.
C5_Witness ==
  \E c \in Calls :
    /\ calls[c].pc = "returned"
    /\ calls[c].trace = <<"sanitize", "validate">>
    /\ calls[c].result.error = <<"Invalid markdown structure">>
    /\ calls[c].result.validation_errors # <<>>
    /\ calls[c].result.sanitization_warnings # <<>>

\* C6: a call of convert_markdown_to_pdf whose markdown_content is None, no
\* string, empty or whitespace only invokes neither the sanitizer nor the
\* validator nor the renderer, creates no file, and returns success = false.
C6_InputErrorsFirst ==
  \A c \in Calls :
    (/\ calls[c].entry = "convert"
     /\ calls[c].pc # "idle"
     /\ BadContent(calls[c].markdown_content)) =>
      /\ calls[c].trace = <<>>
      /\ calls[c].pc \in {"convert", "returned"}
      /\ \A n \in DiskNames : disk[n] = NoFile
      /\ \A d \in Calls : temp[d] = NoFile
      /\ calls[c].pc = "returned" =>
           /\ calls[c].result.success = FALSE
           /\ "error" \in calls[c].result.keys

\* C6 witness: a call given whitespace-only content has returned the failure
\* of the input check.
C6_Witness ==
  \E c \in Calls :
    /\ calls[c].entry = "convert"
    /\ calls[c].pc = "returned"
    /\ calls[c].markdown_content = PyStr(<<" ", NL>>)
    /\ calls[c].result.error = <<"Empty markdown content provided">>

\* C10: no call ends in an exception, and every dictionary returned by one of
\* the three tools holds success, a boolean, and message, and holds error
\* when success is false.
C10_ResultShape ==
  \A c \in Calls :
    /\ calls[c].pc # "escaped"
    /\ calls[c].pc = "returned" =>
         /\ {"success", "message"} \subseteq calls[c].result.keys
         /\ calls[c].result.success \in BOOLEAN
         /\ calls[c].result.success = FALSE => "error" \in calls[c].result.keys

\* C10 witness: health_check has returned unhealthy after the renderer raised
\* an exception that the inner handler raised again.
C10_Witness ==
  \E c \in Calls :
    /\ calls[c].entry = "health"
    /\ calls[c].pc = "returned"
    /\ calls[c].result.status = "unhealthy"
    /\ calls[c].result.error = <<"exception">>
    /\ calls[c].trace = <<"sanitize", "validate", "render">>

\* Whether the caller of k gave a name for the PDF.
NameGiven(k) == ~Falsy(k.given_filename)

\* A name with the extension appended unless the name already ends with it.
WithPdfExt(name) == IF EndsWithSeq(name, PdfExt) THEN name ELSE name \o PdfExt

\* Whether the call k of one of the two conversion tools returned success.
Converted(k) ==
  k.entry \in {"convert", "file"} /\ k.pc = "returned" /\ k.result.success

\* C11 as claimed: the filename of a successful conversion ends with the
\* extension; it is the given name with the extension appended exactly when
\* the name lacks it, converted_markdown.pdf when convert_markdown_to_pdf is
\* given no name, and the stem of the file followed by the extension when
\* convert_markdown_file_to_pdf is given no name.
C11_FilenameAsClaimed ==
  \A c \in Calls :
    LET k == calls[c] IN
    Converted(k) =>
      /\ EndsWithSeq(k.result.filename, PdfExt)
      /\ k.result.filename =
           IF NameGiven(k) THEN WithPdfExt(k.given_filename.s)
           ELSE IF k.entry = "convert" THEN DefaultName \o PdfExt
           ELSE PathStem(k.markdown_file_path.s) \o PdfExt

\* C11 as amended: as claimed, but the stem of the file is treated as a given
\* name, the extension being appended only to a stem that lacks it.
C11_Filename ==
  \A c \in Calls :
    LET k == calls[c] IN
    Converted(k) =>
      /\ EndsWithSeq(k.result.filename, PdfExt)
      /\ "filename" \in k.result.keys
      /\ k.result.filename =
           IF NameGiven(k) THEN WithPdfExt(k.given_filename.s)
           ELSE IF k.entry = "convert" THEN DefaultName \o PdfExt
           ELSE WithPdfExt(PathStem(k.markdown_file_path.s))

\* C11 witness: convert_markdown_file_to_pdf, given no name, has converted a
\* file and named the PDF after the stem of the file.
C11_Witness ==
  \E c \in Calls :
    /\ Converted(calls[c])
    /\ calls[c].entry = "file"
    /\ ~NameGiven(calls[c])
    /\ calls[c].markdown_file_path = PyStr(<<"doc", ".md">>)
    /\ calls[c].result.filename = <<"doc">> \o PdfExt

(***************************************************************************)
(* Properties of the failures of a tool call, checked under FlowSpec.      *)
(***************************************************************************)
\* Whether the call k has returned after the renderer raised, while the PDF
\* object was built, the section added or the PDF saved.
RendererFailed(k) ==
  k.pc \in {"returned", "wrap"} /\ k.result.exception.type = "Exception"

\* Whether a result carries the suggestions for heading hierarchy.
HierarchySuggestions(r) ==
  \/ ("suggested_fix" \in r.keys /\ r.error = <<"Markdown hierarchy error">>)
  \/ "suggested_fixes" \in r.keys

\* Whether a result carries the suggestions for table formatting.
TableSuggestions(r) ==
  "suggested_fix" \in r.keys /\ r.error = <<"Markdown table error">>

\* C26: after a failure of the renderer at any step the call returns
\* success = false with the error; the result carries the hierarchy
\* suggestions when the text holds hierarchy, and otherwise the table
\* suggestions when it holds table or row.
C26_RendererFailureClassified ==
  \A c \in Calls :
    LET k == calls[c]
        words == k.result.exception.words
    IN RendererFailed(k) =>
         /\ ~k.result.success
         /\ "error" \in k.result.keys
         /\ "hierarchy" \in words => HierarchySuggestions(k.result)
         /\ ("hierarchy" \notin words /\ words \cap {"table", "row"} # {}) =>
              TableSuggestions(k.result)

\* The collaborators invoked by a call that went through the fallback: the
\* pipeline, and the second save.
FallbackTrace == Pipeline \o <<"save">>

\* Whether the call k has ended after saving to the output path raised
\* PermissionError.
FellBack(k) ==
  k.pc \in {"returned", "wrap", "escaped"} /\ Len(k.trace) > Len(Pipeline)

\* C27: after PermissionError on the output path the PDF is saved once more,
\* for base64: the sanitizer, the validator and the section are not run
\* again; the call then returns either success with fallback_to_base64 and
\* the PDF of its section in pdf_base64, or a failure; nothing is tried a
\* third time.
C27_FallbackOnce ==
  \A c \in Calls :
    LET k == calls[c] IN
    /\ k.pc = "fallback" => k.trace = Pipeline
    /\ Len(k.trace) <= Len(FallbackTrace)
    /\ FellBack(k) =>
         /\ k.pc # "escaped"
         /\ k.trace = FallbackTrace
         /\ k.result.success =>
              /\ {"fallback_to_base64", "pdf_base64"} \subseteq k.result.keys
              /\ k.result.fallback_to_base64
              /\ k.result.pdf_base64 = Base64(PdfBytes(k.section))
         /\ ~k.result.success =>
              /\ "error" \in k.result.keys
              /\ k.result.exception # NoError
    /\ "fallback_to_base64" \in k.result.keys => k.trace = FallbackTrace

\* C27 witness: a call whose text the sanitizer repaired has returned the
\* PDF as base64 after PermissionError on the output path.
C27_Witness ==
  \E c \in Calls :
    /\ calls[c].pc = "returned"
    /\ ~calls[c].return_base64
    /\ calls[c].trace = FallbackTrace
    /\ calls[c].result.success
    /\ calls[c].result.fallback_to_base64
    /\ calls[c].result.sanitization_warnings # <<>>

\* C30: a call that has returned has left no temporary file: the file made
\* for base64 output or for the fallback is deleted on success and on every
\* failure.
C30_NoTemporaryFileLeft ==
  \A c \in Calls :
    calls[c].pc \in {"returned", "wrap", "escaped"} => ~temp[c].exists

(***************************************************************************)
(* Properties of concurrent calls, checked under ConcSpec.                 *)
(***************************************************************************)
\* The bytes of the PDF rendered from the content of the call k.
OwnPdf(k) ==
  PdfBytes(SectionContent(Sanitize(k.markdown_content.s).text, k.custom_page))

\* C9: every call that has returned reports success, and the size and the
\* payload of the PDF rendered from its own content.
C9_Independent ==
  \A c \in Calls :
    calls[c].pc = "returned" =>
      /\ calls[c].result.success
      /\ calls[c].result.size_bytes = Len(OwnPdf(calls[c]))
      /\ calls[c].return_base64 =>
           calls[c].result.pdf_base64 = Base64(OwnPdf(calls[c]))

====
